---- MODULE Spec2Model ----
(***************************************************************************)
(* Lifecycle orchestration of the proxmox provider: Create / Read / Update *)
(* / Delete of VMs (proxmox_vm) and containers (proxmox_lxc) against the   *)
(* remote platform.  Every remote API call of a handler is one step, so    *)
(* that two handlers (and out-of-band actors on the platform) interleave   *)
(* at call granularity.                                                    *)
(***************************************************************************)
EXTENDS Integers, Sequences, FiniteSets, TLC

\* ---------------------------------------------------------------- bounds
\* The platform's id space is initialVMID .. initialVMID + NumIds - 1.
NumIds == 2
\* The attempt counters of Create saturate here (the loop itself is unbounded).
MaxAttempts == 3
\* The agent query counter of a poll saturates here (the polling loop is bounded
\* by the deadline only).
MaxQueries == 3
\* Out-of-band modifications and edits of the desired spec in one behaviour of
\* the field-level specification.
MaxOob == 1
MaxEdits == 1

\* ------------------------------------------------------------- constants
initialVMID == 100

stateRunning == "running"
stateStopped == "stopped"

Ids == initialVMID .. (initialVMID + NumIds - 1)
Res == {"a", "b"}

\* An Int64 that is unknown (not configured and not in prior state).
Unknown == 0

\* types.StringNull() / types.ObjectNull(), as opposed to the empty string.
Null == "<null>"

\* State masks, as the sets of bits they hold (only these three bits are read).
VMStateEverything == {"config", "status", "net"}
VMStateStatus == {"status"}
LXCStateConfig == {"config"}
LXCStateStatus == {"status"}
LXCStateEverything == {"config", "status"}

VARIABLES
    guests,    \* the platform: id -> guest (status "absent" when the id is free)
    cfg,       \* per resource: the user's configuration (fixed during a run)
    tfstate,   \* per resource: tracked state (vmid Unknown when not tracked)
    op,        \* per resource: the handler last invoked
    pc,        \* per resource: position in that handler ("done": it has returned
               \* and its response is being looked at; "idle": between handlers)
    vmr,       \* per resource: the handler's VmRef id
    diag,      \* per resource: resp.Diagnostics ("none", or the failing call)
    log,       \* per resource: remote calls of the current handler run (of the
               \* current attempt, in Create's retry loop)
    nNextID,   \* per resource: GetNextID queries of the current Create (saturating)
    nCreate,   \* per resource: create/clone calls of the current Create (saturating)
    pre,       \* per resource: the target guest's status as the handler found it
               \* (Update: when it began; Read, Delete: in the guest list)
    poll,      \* one agent address poll of a VM read: the reading caller, the
               \* background task, the deadline timer
    disks,     \* one run of the attachment diff engine: its inputs, position,
               \* remote calls, and the guest's attachments on the platform
    fld        \* one guest at field level: the platform's configuration, the
               \* desired spec, the tracked state, the last handler's response

lifecycleVars == <<guests, cfg, tfstate, op, pc, vmr, diag, log, nNextID, nCreate, pre>>
vars == <<guests, cfg, tfstate, op, pc, vmr, diag, log, nNextID, nCreate, pre, poll, disks, fld>>

\* The parts of the state a specification does not exercise.
None == [pc |-> "none"]

NoGuest == [status |-> "absent", creator |-> "none", agentNet |-> FALSE, pending |-> FALSE]
NoState == [vmid |-> Unknown, status |-> "none"]

Exists(id) == guests[id].status # "absent"
FreeIds == {i \in Ids : ~Exists(i)}
MinOf(S) == CHOOSE x \in S : \A y \in S : x <= y
Sat(n) == IF n < MaxAttempts THEN n + 1 ELSE MaxAttempts
Range(s) == {s[i] : i \in 1..Len(s)}

\* The configurations a resource block can have: kind of guest, explicit vmid or
\* none, desired status, clone source (VM only), guest agent enabled together
\* with a network device (VM only).  vmidRemoved records that an explicit vmid
\* was later taken out of the block.
Cfgs ==
    { c \in [kind : {"vm", "lxc"}, vmid : {Unknown, initialVMID},
             status : {stateRunning, stateStopped},
             clone : {"null", "id", "name"}, agentNet : BOOLEAN,
             vmidRemoved : {FALSE}] :
        c.kind = "lxc" => (c.clone = "null" /\ ~c.agentNet) }

\* Variant of PlanVMID: the vmid attribute without UseStateForUnknown.
PlanVMID_ConfigOnly(r) == cfg[r].vmid

\* The plan's vmid: the configured one, else the prior state's
\* (UseStateForUnknown), else unknown.
PlanVMID(r) ==
    IF cfg[r].vmid # Unknown THEN cfg[r].vmid
    ELSE tfstate[r].vmid

\* ------------------------------------------------------- handler helpers
AtRest(r) == pc[r] = "idle"

\* The handler of r is working on an existing guest (for Create: from the
\* successful create/clone call on).
Targeting(r) == pc[r] \notin {"idle", "done", "off", "getid", "lookup", "create", "clone"}
InFlight(id) == \E r \in Res : Targeting(r) /\ vmr[r] = id

Finish(r, d) ==
    /\ pc' = [pc EXCEPT ![r] = "done"]
    /\ diag' = [diag EXCEPT ![r] = d]

Call(r, name) == log' = [log EXCEPT ![r] = Append(@, name)]

\* A start or stop of guest id; a stop applies the guest's pending changes.
SetStatus(id, s) ==
    guests' = [guests EXCEPT ![id].status = s,
                             ![id].pending = IF s = stateStopped THEN FALSE ELSE @]

\* Variants of ShouldRetry: retry whatever the plan says / never retry.
ShouldRetry_Always(r) == TRUE
ShouldRetry_Never(r) == FALSE

\* plan.VMID.IsUnknown() && re.MatchString(err.Error()), for an error that is
\* the platform's "already exists" rejection.
ShouldRetry(r) == PlanVMID(r) = Unknown

\* Variant of CreateErrNext: the rejection is swallowed and Create goes on.
CreateErrNext_Swallow(r) ==
    [pc |-> IF cfg[r].status = stateRunning THEN "start" ELSE "read", diag |-> "none"]

\* Variant of CreateErrNext: the retry repeats the call with the id it has.
CreateErrNext_SameId(r) ==
    IF ShouldRetry(r) THEN [pc |-> pc[r], diag |-> "none"]
    ELSE [pc |-> "done", diag |-> "Exists"]

\* What the create/clone error branch does on an "already exists" rejection:
\* `continue` (next attempt, nothing surfaced) or AddError and return.
CreateErrNext(r) ==
    IF ShouldRetry(r) THEN [pc |-> "getid", diag |-> "none"]
    ELSE [pc |-> "done", diag |-> "Exists"]

\* Variant of LookupErrNext: a failed lookup is retried like a collision.
LookupErrNext_Retry(r) ==
    IF ShouldRetry(r) THEN [pc |-> "getid", diag |-> "none"]
    ELSE [pc |-> "done", diag |-> "Lookup"]

\* The error branch of GetVmRefByName: AddError "Could not clone VM, no template
\* with ID/name '%s' could be found" (diagnostic "Lookup") and return.
LookupErrNext(r) == [pc |-> "done", diag |-> "Lookup"]

\* Variant of AfterCreated: the loop is not left after a successful attempt.
AfterCreated_Again(r) == "getid"

\* After the loop: start if plan.Status is running, else go on to the read-back.
AfterCreated(r) == IF cfg[r].status = stateRunning THEN "start" ELSE "read"

\* Variants of RebootNext: the start without the stop / the reboot whatever
\* the platform reports.
RebootNext_StartOnly(reboot, otherwise) == IF reboot THEN "rstart" ELSE otherwise
RebootNext_Always(reboot, otherwise) == "rstop"

\* if reboot { StopVm; StartVm }: where the handler goes once it knows whether
\* the guest has pending changes.
RebootNext(reboot, otherwise) == IF reboot THEN "rstop" ELSE otherwise

\* After getIDToUse.
AfterGetID(r) ==
    IF op[r] = "Update" THEN "update"
    ELSE IF cfg[r].clone = "null" THEN "create"
    ELSE IF cfg[r].clone = "name" THEN "lookup"
    ELSE "clone"

NewGuest(r) ==
    [status |-> stateStopped, creator |-> r,
     agentNet |-> (cfg[r].clone = "null" /\ cfg[r].agentNet), pending |-> FALSE]

\* The agent address poll of a VM read: a stopped guest's agent never answers
\* (query error or deadline); a running guest's answers or fails.
PollOuts(g, calls) ==
    IF g.status = stateRunning
    THEN {[err |-> "none", status |-> g.status, calls |-> calls \o <<"AgentQuery">>],
          [err |-> "AgentPoll", status |-> "none", calls |-> calls \o <<"AgentQuery">>]}
    ELSE {[err |-> "AgentPollStopped", status |-> "none", calls |-> calls \o <<"AgentQuery">>]}

\* UpdateVMResourceModelFromAPI / UpdateLXCResourceModelFromAPI: the outcomes
\* of one read of guest id under a mask: the error returned (or "none"), the
\* status read, and the remote calls issued.  With the network bit and without
\* the configuration bit the VM reader reads through a nil configuration.
ReadBack(kind, id, mask) ==
    LET g == guests[id]
        cCalls == IF "config" \in mask THEN <<"GetConfig">> ELSE <<>>
        sCalls == IF "status" \in mask THEN cCalls \o <<"GetVmState">> ELSE cCalls
        polls == kind = "vm" /\ "net" \in mask /\ "config" \in mask /\ g.agentNet
    IN  (IF "config" \in mask
         THEN {[err |-> "GetConfig", status |-> "none", calls |-> cCalls]} ELSE {})
        \cup
        (IF "status" \in mask
         THEN {[err |-> "GetVmState", status |-> "none", calls |-> sCalls]} ELSE {})
        \cup
        (IF ~Exists(id) THEN {}
         ELSE IF kind = "vm" /\ "net" \in mask /\ "config" \notin mask
         THEN {[err |-> "nil pointer dereference", status |-> "none", calls |-> sCalls]}
         ELSE IF polls THEN PollOuts(g, sCalls)
         ELSE {[err |-> "none", status |-> g.status, calls |-> sCalls]})

CreateMask(r) == IF cfg[r].kind = "vm" THEN VMStateEverything ELSE LXCStateConfig
EverythingMask(r) == IF cfg[r].kind = "vm" THEN VMStateEverything ELSE LXCStateEverything

\* Variant of StatusMask: the status read of a VM also asks for the address.
StatusMask_WithNet(r) ==
    IF cfg[r].kind = "vm" THEN VMStateStatus \cup {"net"} ELSE LXCStateStatus

StatusMask(r) == IF cfg[r].kind = "vm" THEN VMStateStatus ELSE LXCStateStatus

\* Variant of StateAfter: the model is stored whatever the read-back returned.
StateAfter_Always(r, err, model) == [model EXCEPT !.status = cfg[r].status]

\* if err != nil { AddError; return } ... resp.State.Set(ctx, plan): the
\* tracked state after the last read-back of Create and of Update.
StateAfter(r, err, model) == IF err # "none" THEN tfstate[r] ELSE model

\* ---------------------------------------------------------------- Create
CreateBegin(r) ==
    /\ AtRest(r)
    /\ tfstate[r].vmid = Unknown
    /\ op' = [op EXCEPT ![r] = "Create"]
    /\ pc' = [pc EXCEPT ![r] = "getid"]
    /\ diag' = [diag EXCEPT ![r] = "none"]
    /\ log' = [log EXCEPT ![r] = <<>>]
    /\ nNextID' = [nNextID EXCEPT ![r] = 0]
    /\ nCreate' = [nCreate EXCEPT ![r] = 0]
    /\ vmr' = [vmr EXCEPT ![r] = Unknown]
    /\ pre' = [pre EXCEPT ![r] = "absent"]
    /\ UNCHANGED <<guests, cfg, tfstate>>
    /\ UNCHANGED <<poll, disks, fld>>

\* getIDToUse, in Create's loop and in Update.
GetID(r) ==
    /\ pc[r] = "getid"
    /\ IF PlanVMID(r) # Unknown
       THEN /\ vmr' = [vmr EXCEPT ![r] = PlanVMID(r)]
            /\ pc' = [pc EXCEPT ![r] = AfterGetID(r)]
            /\ UNCHANGED <<diag, log, nNextID>>
       ELSE /\ Call(r, "GetNextID")
            /\ nNextID' = [nNextID EXCEPT ![r] = Sat(@)]
            /\ \/ /\ FreeIds # {}
                  /\ vmr' = [vmr EXCEPT ![r] = MinOf(FreeIds)]
                  /\ pc' = [pc EXCEPT ![r] = AfterGetID(r)]
                  /\ UNCHANGED diag
               \/ /\ Finish(r, "GetNextID")
                  /\ UNCHANGED vmr
    /\ UNCHANGED <<guests, cfg, tfstate, op, nCreate, pre>>
    /\ UNCHANGED <<poll, disks, fld>>

\* client.GetVmRefByName for a clone source given by name.
CreateLookup(r) ==
    /\ pc[r] = "lookup"
    /\ Call(r, "GetVmRefByName")
    /\ \/ /\ pc' = [pc EXCEPT ![r] = "clone"]
          /\ UNCHANGED diag
       \/ /\ pc' = [pc EXCEPT ![r] = LookupErrNext(r).pc]
          /\ diag' = [diag EXCEPT ![r] = LookupErrNext(r).diag]
    /\ UNCHANGED <<guests, cfg, tfstate, op, vmr, nNextID, nCreate, pre>>
    /\ UNCHANGED <<poll, disks, fld>>

\* config.Create / config.CloneVm / config.CreateLxc and the error branch.
CreateCall(r) ==
    /\ pc[r] \in {"create", "clone"}
    /\ nCreate' = [nCreate EXCEPT ![r] = Sat(@)]
    /\ IF Exists(vmr[r])
       THEN /\ pc' = [pc EXCEPT ![r] = CreateErrNext(r).pc]
            /\ diag' = [diag EXCEPT ![r] = CreateErrNext(r).diag]
            /\ log' = [log EXCEPT ![r] =
                         IF CreateErrNext(r).pc = "getid" THEN <<>>
                         ELSE Append(@, "Create")]
            /\ UNCHANGED guests
       ELSE /\ Call(r, "Create")
            /\ \/ /\ guests' = [guests EXCEPT ![vmr[r]] = NewGuest(r)]
                  /\ pc' = [pc EXCEPT ![r] =
                              IF pc[r] = "create" THEN AfterCreated(r) ELSE "postupdate"]
                  /\ UNCHANGED diag
               \/ /\ Finish(r, "CreateFailed")
                  /\ UNCHANGED guests
    /\ UNCHANGED <<cfg, tfstate, op, vmr, nNextID, pre>>
    /\ UNCHANGED <<poll, disks, fld>>

\* config.Update after a clone; it reports whether a reboot is required.
CreatePostUpdate(r) ==
    /\ pc[r] = "postupdate"
    /\ Call(r, "UpdateConfig")
    /\ \/ \E requiresReboot \in BOOLEAN :
             /\ guests' = [guests EXCEPT ![vmr[r]].agentNet = cfg[r].agentNet,
                                          ![vmr[r]].pending = requiresReboot]
             /\ pc' = [pc EXCEPT ![r] = RebootNext(requiresReboot, AfterCreated(r))]
             /\ UNCHANGED diag
       \/ /\ Finish(r, "UpdateConfig")
          /\ UNCHANGED guests
    /\ UNCHANGED <<cfg, tfstate, op, vmr, nNextID, nCreate, pre>>
    /\ UNCHANGED <<poll, disks, fld>>

\* The stop of a stop-then-start reboot (after clone, and in Update).
RebootStop(r) ==
    /\ pc[r] = "rstop"
    /\ Call(r, "StopVm")
    /\ \/ /\ Exists(vmr[r])
          /\ SetStatus(vmr[r], stateStopped)
          /\ pc' = [pc EXCEPT ![r] = "rstart"]
          /\ UNCHANGED diag
       \/ /\ Finish(r, "StopVm")
          /\ UNCHANGED guests
    /\ UNCHANGED <<cfg, tfstate, op, vmr, nNextID, nCreate, pre>>
    /\ UNCHANGED <<poll, disks, fld>>

\* The start of a stop-then-start reboot.
RebootStart(r) ==
    /\ pc[r] = "rstart"
    /\ Call(r, "StartVm")
    /\ \/ /\ Exists(vmr[r])
          /\ SetStatus(vmr[r], stateRunning)
          /\ pc' = [pc EXCEPT ![r] = IF op[r] = "Create" THEN AfterCreated(r) ELSE "read1"]
          /\ UNCHANGED diag
       \/ /\ Finish(r, "StartVm")
          /\ UNCHANGED guests
    /\ UNCHANGED <<cfg, tfstate, op, vmr, nNextID, nCreate, pre>>
    /\ UNCHANGED <<poll, disks, fld>>

\* StartVm after creation when plan.Status is running.
CreateStart(r) ==
    /\ pc[r] = "start"
    /\ Call(r, "StartVm")
    /\ \/ /\ Exists(vmr[r])
          /\ SetStatus(vmr[r], stateRunning)
          /\ pc' = [pc EXCEPT ![r] = "read"]
          /\ UNCHANGED diag
       \/ /\ Finish(r, "StartVm")
          /\ UNCHANGED guests
    /\ UNCHANGED <<cfg, tfstate, op, vmr, nNextID, nCreate, pre>>
    /\ UNCHANGED <<poll, disks, fld>>

\* The read-back into the plan and resp.State.Set.
CreateRead(r) ==
    /\ pc[r] = "read"
    /\ \E out \in ReadBack(cfg[r].kind, vmr[r], CreateMask(r)) :
          /\ log' = [log EXCEPT ![r] = @ \o out.calls]
          /\ Finish(r, out.err)
          /\ tfstate' = [tfstate EXCEPT ![r] =
                StateAfter(r, out.err,
                           [vmid |-> vmr[r],
                            status |-> IF "status" \in CreateMask(r)
                                       THEN out.status ELSE cfg[r].status])]
    /\ UNCHANGED <<guests, cfg, op, vmr, nNextID, nCreate, pre>>
    /\ UNCHANGED <<poll, disks, fld>>

\* ---------------------------------------------------------------- Update
UpdateBegin(r) ==
    /\ AtRest(r)
    /\ tfstate[r].vmid # Unknown
    /\ op' = [op EXCEPT ![r] = "Update"]
    /\ pc' = [pc EXCEPT ![r] = "getid"]
    /\ diag' = [diag EXCEPT ![r] = "none"]
    /\ log' = [log EXCEPT ![r] = <<>>]
    /\ nNextID' = [nNextID EXCEPT ![r] = 0]
    /\ nCreate' = [nCreate EXCEPT ![r] = 0]
    /\ vmr' = [vmr EXCEPT ![r] = Unknown]
    /\ pre' = [pre EXCEPT ![r] = guests[tfstate[r].vmid].status]
    /\ UNCHANGED <<guests, cfg, tfstate>>
    /\ UNCHANGED <<poll, disks, fld>>

\* config.Update / config.UpdateConfig with the plan's configuration.
UpdateConfig(r) ==
    /\ pc[r] = "update"
    /\ Call(r, "UpdateConfig")
    /\ \/ /\ Exists(vmr[r])
          /\ \E changes \in BOOLEAN :
                guests' = [guests EXCEPT ![vmr[r]].agentNet = cfg[r].agentNet,
                                         ![vmr[r]].pending = changes]
          /\ pc' = [pc EXCEPT ![r] = "pending"]
          /\ UNCHANGED diag
       \/ /\ Finish(r, "UpdateConfig")
          /\ UNCHANGED guests
    /\ UNCHANGED <<cfg, tfstate, op, vmr, nNextID, nCreate, pre>>
    /\ UNCHANGED <<poll, disks, fld>>

\* pveapi.GuestHasPendingChanges.
UpdatePending(r) ==
    /\ pc[r] = "pending"
    /\ Call(r, "GuestHasPendingChanges")
    /\ \/ /\ Exists(vmr[r])
          /\ pc' = [pc EXCEPT ![r] = RebootNext(guests[vmr[r]].pending, "read1")]
          /\ UNCHANGED diag
       \/ Finish(r, "Pending")
    /\ UNCHANGED <<guests, cfg, tfstate, op, vmr, nNextID, nCreate, pre>>
    /\ UNCHANGED <<poll, disks, fld>>

\* Variant of PowerCall: Update never issues a power call.
PowerCall_Never(r, observed) == "none"

\* if plan.Status != state.Status { switch plan.Status ... }: the power call
\* Update issues once it has observed status `observed`.
PowerCall(r, observed) ==
    IF cfg[r].status = observed THEN "none"
    ELSE IF cfg[r].status = stateRunning THEN "StartVm"
    ELSE "StopVm"

\* The first read-back of Update (everything) and the status comparison.
UpdateRead1(r) ==
    /\ pc[r] = "read1"
    /\ \E out \in ReadBack(cfg[r].kind, vmr[r], EverythingMask(r)) :
          /\ log' = [log EXCEPT ![r] = @ \o out.calls]
          /\ IF out.err # "none"
             THEN Finish(r, out.err)
             ELSE /\ pc' = [pc EXCEPT ![r] =
                              IF PowerCall(r, out.status) = "none" THEN "read2" ELSE "power"]
                  /\ UNCHANGED diag
    /\ UNCHANGED <<guests, cfg, tfstate, op, vmr, nNextID, nCreate, pre>>
    /\ UNCHANGED <<poll, disks, fld>>

\* The start or stop call of Update's switch on plan.Status.
UpdatePower(r) ==
    /\ pc[r] = "power"
    /\ LET call == IF cfg[r].status = stateRunning THEN "StartVm" ELSE "StopVm"
       IN  /\ Call(r, call)
           /\ \/ /\ Exists(vmr[r])
                 /\ SetStatus(vmr[r], IF call = "StartVm" THEN stateRunning ELSE stateStopped)
                 /\ pc' = [pc EXCEPT ![r] = "read2"]
                 /\ UNCHANGED diag
              \/ /\ Finish(r, call)
                 /\ UNCHANGED guests
    /\ UNCHANGED <<cfg, tfstate, op, vmr, nNextID, nCreate, pre>>
    /\ UNCHANGED <<poll, disks, fld>>

\* The second read-back of Update (status only) and resp.State.Set.
UpdateRead2(r) ==
    /\ pc[r] = "read2"
    /\ \E out \in ReadBack(cfg[r].kind, vmr[r], StatusMask(r)) :
          /\ log' = [log EXCEPT ![r] = @ \o out.calls]
          /\ Finish(r, out.err)
          /\ tfstate' = [tfstate EXCEPT ![r] =
                StateAfter(r, out.err, [vmid |-> vmr[r], status |-> out.status])]
    /\ UNCHANGED <<guests, cfg, op, vmr, nNextID, nCreate, pre>>
    /\ UNCHANGED <<poll, disks, fld>>

\* ------------------------------------------------------- Read and Delete
ReadBegin(r) ==
    /\ AtRest(r)
    /\ tfstate[r].vmid # Unknown
    /\ op' = [op EXCEPT ![r] = "Read"]
    /\ pc' = [pc EXCEPT ![r] = "list"]
    /\ diag' = [diag EXCEPT ![r] = "none"]
    /\ log' = [log EXCEPT ![r] = <<>>]
    /\ nNextID' = [nNextID EXCEPT ![r] = 0]
    /\ nCreate' = [nCreate EXCEPT ![r] = 0]
    /\ vmr' = [vmr EXCEPT ![r] = tfstate[r].vmid]
    /\ pre' = [pre EXCEPT ![r] = "absent"]
    /\ UNCHANGED <<guests, cfg, tfstate>>
    /\ UNCHANGED <<poll, disks, fld>>

DeleteBegin(r) ==
    /\ AtRest(r)
    /\ tfstate[r].vmid # Unknown
    /\ op' = [op EXCEPT ![r] = "Delete"]
    /\ pc' = [pc EXCEPT ![r] = "list"]
    /\ diag' = [diag EXCEPT ![r] = "none"]
    /\ log' = [log EXCEPT ![r] = <<>>]
    /\ nNextID' = [nNextID EXCEPT ![r] = 0]
    /\ nCreate' = [nCreate EXCEPT ![r] = 0]
    /\ vmr' = [vmr EXCEPT ![r] = tfstate[r].vmid]
    /\ pre' = [pre EXCEPT ![r] = "absent"]
    /\ UNCHANGED <<guests, cfg, tfstate>>
    /\ UNCHANGED <<poll, disks, fld>>

\* Delete invoked a second time with the request state of a Delete that just
\* returned without error.
DeleteAgain(r) ==
    /\ pc[r] = "done"
    /\ op[r] = "Delete"
    /\ diag[r] = "none"
    /\ op' = [op EXCEPT ![r] = "DeleteAgain"]
    /\ pc' = [pc EXCEPT ![r] = "list"]
    /\ log' = [log EXCEPT ![r] = <<>>]
    /\ UNCHANGED <<guests, cfg, tfstate, vmr, diag, nNextID, nCreate, pre>>
    /\ UNCHANGED <<poll, disks, fld>>

\* Variants of AbsentNext: Delete goes on to stop the guest / Read goes on to
\* read it.
AbsentNext_DeleteOn(r) == IF op[r] = "Read" THEN "done" ELSE "stop"
AbsentNext_ReadOn(r) == IF op[r] = "Read" THEN "readall" ELSE "done"

\* Where a handler goes when the guest list does not hold its id: Read removes
\* the resource from state and returns, Delete returns.
AbsentNext(r) == "done"

\* Where a handler goes when the guest list holds its id.
PresentNext(r) ==
    IF op[r] = "Read" THEN "readall"
    ELSE IF cfg[r].kind = "vm" THEN "stop"
    ELSE "status"

\* pveapi.ListGuests and the search for the id, in Read and in Delete.
ListStep(r) ==
    /\ pc[r] = "list"
    /\ Call(r, "ListGuests")
    /\ \/ /\ Finish(r, "ListGuests")
          /\ UNCHANGED <<tfstate, pre>>
       \/ /\ Exists(vmr[r])
          /\ pc' = [pc EXCEPT ![r] = PresentNext(r)]
          /\ pre' = [pre EXCEPT ![r] = guests[vmr[r]].status]
          /\ UNCHANGED <<diag, tfstate>>
       \/ /\ ~Exists(vmr[r])
          /\ pc' = [pc EXCEPT ![r] = AbsentNext(r)]
          /\ tfstate' = [tfstate EXCEPT ![r] = IF AbsentNext(r) = "done" THEN NoState ELSE @]
          /\ UNCHANGED <<diag, pre>>
    /\ UNCHANGED <<guests, cfg, op, vmr, nNextID, nCreate>>
    /\ UNCHANGED <<poll, disks, fld>>

\* The read of everything in Read and resp.State.Set.
ReadAll(r) ==
    /\ pc[r] = "readall"
    /\ \E out \in ReadBack(cfg[r].kind, vmr[r], EverythingMask(r)) :
          /\ log' = [log EXCEPT ![r] = @ \o out.calls]
          /\ Finish(r, out.err)
          /\ tfstate' = [tfstate EXCEPT ![r] =
                IF out.err # "none" THEN @
                ELSE [vmid |-> vmr[r], status |-> out.status]]
    /\ UNCHANGED <<guests, cfg, op, vmr, nNextID, nCreate, pre>>
    /\ UNCHANGED <<poll, disks, fld>>

\* Variant of StopBeforeDelete: no stop before the delete call.
StopBeforeDelete_Never(kind, status) == FALSE

\* Whether Delete stops the guest before deleting it: the VM handler always
\* does, the container handler when the status it read is "running".
StopBeforeDelete(kind, status) == kind = "vm" \/ status = stateRunning

\* client.GetVmState in the container's Delete.
DeleteStatus(r) ==
    /\ pc[r] = "status"
    /\ Call(r, "GetVmState")
    /\ \/ /\ Exists(vmr[r])
          /\ pc' = [pc EXCEPT ![r] =
                      IF StopBeforeDelete(cfg[r].kind, guests[vmr[r]].status)
                      THEN "stop" ELSE "delete"]
          /\ UNCHANGED diag
       \/ Finish(r, "GetVmState")
    /\ UNCHANGED <<guests, cfg, tfstate, op, vmr, nNextID, nCreate, pre>>
    /\ UNCHANGED <<poll, disks, fld>>

\* client.StopVm before deleting.
DeleteStop(r) ==
    /\ pc[r] = "stop"
    /\ Call(r, "StopVm")
    /\ \/ /\ Exists(vmr[r])
          /\ SetStatus(vmr[r], stateStopped)
          /\ pc' = [pc EXCEPT ![r] = "delete"]
          /\ UNCHANGED diag
       \/ /\ Finish(r, "StopVm")
          /\ UNCHANGED guests
    /\ UNCHANGED <<cfg, tfstate, op, vmr, nNextID, nCreate, pre>>
    /\ UNCHANGED <<poll, disks, fld>>

\* client.DeleteVm; after a Delete without error the framework drops the state.
DeleteCall(r) ==
    /\ pc[r] = "delete"
    /\ Call(r, "DeleteVm")
    /\ \/ /\ Exists(vmr[r])
          /\ guests' = [guests EXCEPT ![vmr[r]] = NoGuest]
          /\ Finish(r, "none")
          /\ tfstate' = [tfstate EXCEPT ![r] = NoState]
       \/ /\ Finish(r, "DeleteVm")
          /\ UNCHANGED <<guests, tfstate>>
    /\ UNCHANGED <<cfg, op, vmr, nNextID, nCreate, pre>>
    /\ UNCHANGED <<poll, disks, fld>>

\* The user takes the explicit vmid out of the block of a tracked resource.
UnconfigureVMID(r) ==
    /\ AtRest(r)
    /\ cfg[r].vmid # Unknown
    /\ tfstate[r].vmid # Unknown
    /\ cfg' = [cfg EXCEPT ![r].vmid = Unknown, ![r].vmidRemoved = TRUE]
    /\ UNCHANGED <<guests, tfstate, op, pc, vmr, diag, log, nNextID, nCreate, pre>>
    /\ UNCHANGED <<poll, disks, fld>>

\* The resource types that have an ImportState handler.
ImportKinds == {"vm", "lxc", "sdn_zone"}

\* Variant of ImportState: the import id is passed through into state.
ImportState_Passthrough(kind, id, prior) ==
    [diag |-> "none", state |-> [vmid |-> id, status |-> "none"]]

\* ImportState of resource type `kind` for import id `id`: the diagnostic it
\* adds and the state in the response (the handler never sets it).
ImportState(kind, id, prior) ==
    [diag |-> "ImportState Not Yet Supported: " \o kind, state |-> prior]

\* An import request for a resource not yet in state.
Import(r) ==
    /\ AtRest(r)
    /\ tfstate[r].vmid = Unknown
    /\ \E kind \in ImportKinds, id \in Ids :
          /\ diag' = [diag EXCEPT ![r] = ImportState(kind, id, tfstate[r]).diag]
          /\ tfstate' = [tfstate EXCEPT ![r] = ImportState(kind, id, tfstate[r]).state]
    /\ op' = [op EXCEPT ![r] = "Import"]
    /\ pc' = [pc EXCEPT ![r] = "done"]
    /\ UNCHANGED <<guests, cfg, vmr, log, nNextID, nCreate, pre>>
    /\ UNCHANGED <<poll, disks, fld>>

\* The framework has taken the handler's response; the next handler starts
\* with fresh locals.
Return(r) ==
    /\ pc[r] = "done"
    /\ pc' = [pc EXCEPT ![r] = "idle"]
    /\ op' = [op EXCEPT ![r] = "none"]
    /\ diag' = [diag EXCEPT ![r] = "none"]
    /\ log' = [log EXCEPT ![r] = <<>>]
    /\ nNextID' = [nNextID EXCEPT ![r] = 0]
    /\ nCreate' = [nCreate EXCEPT ![r] = 0]
    /\ vmr' = [vmr EXCEPT ![r] = Unknown]
    /\ pre' = [pre EXCEPT ![r] = "absent"]
    /\ UNCHANGED <<guests, cfg, tfstate>>
    /\ UNCHANGED <<poll, disks, fld>>

\* ------------------------------------------------------- out of band
\* Others act on the platform at any time, except on a guest a handler is
\* working on (section 5: no concurrent operation on one guest identity).
Observing == \E r \in Res : pc[r] = "done"

OobCreate(id) ==
    /\ ~Observing
    /\ ~Exists(id)
    /\ guests' = [guests EXCEPT ![id] =
                    [status |-> stateStopped, creator |-> "oob", agentNet |-> FALSE,
                     pending |-> FALSE]]
    /\ UNCHANGED <<cfg, tfstate, op, pc, vmr, diag, log, nNextID, nCreate, pre>>
    /\ UNCHANGED <<poll, disks, fld>>

OobDelete(id) ==
    /\ ~Observing
    /\ Exists(id)
    /\ ~InFlight(id)
    /\ guests' = [guests EXCEPT ![id] = NoGuest]
    /\ UNCHANGED <<cfg, tfstate, op, pc, vmr, diag, log, nNextID, nCreate, pre>>
    /\ UNCHANGED <<poll, disks, fld>>

\* A start or stop of a tracked guest by someone else, between handlers.
OobPower(id) ==
    /\ ~Observing
    /\ Exists(id)
    /\ ~InFlight(id)
    /\ \E r \in Res : AtRest(r) /\ tfstate[r].vmid = id
    /\ SetStatus(id, IF guests[id].status = stateRunning THEN stateStopped ELSE stateRunning)
    /\ UNCHANGED <<cfg, tfstate, op, pc, vmr, diag, log, nNextID, nCreate, pre>>
    /\ UNCHANGED <<poll, disks, fld>>

\* -------------------------------------------------------- specifications
InitCommon ==
    /\ guests = [i \in Ids |-> NoGuest]
    /\ tfstate = [r \in Res |-> NoState]
    /\ op = [r \in Res |-> "none"]
    /\ vmr = [r \in Res |-> Unknown]
    /\ diag = [r \in Res |-> "none"]
    /\ log = [r \in Res |-> <<>>]
    /\ nNextID = [r \in Res |-> 0]
    /\ nCreate = [r \in Res |-> 0]
    /\ pre = [r \in Res |-> "absent"]

\* The steps of Create.
CStep(r) ==
    \/ GetID(r)
    \/ CreateLookup(r)
    \/ CreateCall(r)
    \/ CreatePostUpdate(r)
    \/ RebootStop(r)
    \/ RebootStart(r)
    \/ CreateStart(r)
    \/ CreateRead(r)

\* Two resources of one configuration, each created once, concurrently, on a
\* platform nobody else touches.
InitCreate ==
    /\ InitCommon
    /\ poll = None /\ disks = None /\ fld = None
    /\ cfg \in [Res -> Cfgs]
    /\ pc = [r \in Res |-> "idle"]

NextCreate ==
    \/ \E r \in Res : CreateBegin(r)
    \/ \E r \in Res : GetID(r)
    \/ \E r \in Res : CreateLookup(r)
    \/ \E r \in Res : CreateCall(r)
    \/ \E r \in Res : CreatePostUpdate(r)
    \/ \E r \in Res : RebootStop(r)
    \/ \E r \in Res : RebootStart(r)
    \/ \E r \in Res : CreateStart(r)
    \/ \E r \in Res : CreateRead(r)

SpecCreate == InitCreate /\ [][NextCreate]_vars

\* One resource ("a") through its whole life, handlers invoked one at a time,
\* with out-of-band creation, deletion and power changes on the platform.
Init ==
    /\ InitCommon
    /\ poll = None /\ disks = None /\ fld = None
    /\ cfg \in {c \in [Res -> Cfgs] : c["b"] = [kind |-> "lxc", vmid |-> Unknown,
                   status |-> stateStopped, clone |-> "null", agentNet |-> FALSE,
                   vmidRemoved |-> FALSE]}
    /\ pc = [r \in Res |-> IF r = "a" THEN "idle" ELSE "off"]

Next ==
    \/ \E r \in Res : CreateBegin(r)
    \/ \E r \in Res : UpdateBegin(r)
    \/ \E r \in Res : ReadBegin(r)
    \/ \E r \in Res : DeleteBegin(r)
    \/ \E r \in Res : DeleteAgain(r)
    \/ \E r \in Res : GetID(r)
    \/ \E r \in Res : CreateLookup(r)
    \/ \E r \in Res : CreateCall(r)
    \/ \E r \in Res : CreatePostUpdate(r)
    \/ \E r \in Res : RebootStop(r)
    \/ \E r \in Res : RebootStart(r)
    \/ \E r \in Res : CreateStart(r)
    \/ \E r \in Res : CreateRead(r)
    \/ \E r \in Res : UpdateConfig(r)
    \/ \E r \in Res : UpdatePending(r)
    \/ \E r \in Res : UpdateRead1(r)
    \/ \E r \in Res : UpdatePower(r)
    \/ \E r \in Res : UpdateRead2(r)
    \/ \E r \in Res : ListStep(r)
    \/ \E r \in Res : ReadAll(r)
    \/ \E r \in Res : DeleteStatus(r)
    \/ \E r \in Res : DeleteStop(r)
    \/ \E r \in Res : DeleteCall(r)
    \/ \E r \in Res : Return(r)
    \/ \E r \in Res : UnconfigureVMID(r)
    \/ \E r \in Res : Import(r)
    \/ \E id \in Ids : OobCreate(id)
    \/ \E id \in Ids : OobDelete(id)
    \/ \E id \in Ids : OobPower(id)

Spec == Init /\ [][Next]_vars

\* One Create of resource "a" against a platform on which others create and
\* delete guests; the handler, once invoked, runs on (it is never suspended).
NextLive ==
    \/ CreateBegin("a")
    \/ CStep("a")
    \/ \E id \in Ids : OobCreate(id)
    \/ \E id \in Ids : OobDelete(id)

LiveCreate == Init /\ [][NextLive]_vars /\ WF_vars(CStep("a"))

\* ------------------------------------------- agent address poll (VM read)
\* The lifecycle part of the state, at rest, for the specifications of the
\* single components.
NoLifecycle ==
    /\ InitCommon
    /\ cfg = [r \in Res |-> [kind |-> "vm", vmid |-> Unknown, status |-> stateStopped,
                             clone |-> "null", agentNet |-> FALSE, vmidRemoved |-> FALSE]]
    /\ pc = [r \in Res |-> "off"]

SatQ(n) == IF n < MaxQueries THEN n + 1 ELSE MaxQueries

\* Variant of PollEngaged: the agent flag of the configuration is not looked at.
PollEngaged_AnyAgent(p) == p.net /\ p.networks > 0 /\ p.mac # ""

\* Variant of StoreAddress: the address is stored whatever the mask.
StoreAddress_AnyMask(p, ipv4) == IF ipv4 # "" THEN ipv4 ELSE Null

\* if sm&VMStateNet != 0 { if ipv4 != "" { model.IPV4Address = StringValue(ipv4) }
\* else { model.IPV4Address = StringNull() } }: the model's address after a
\* read that got `ipv4`.
StoreAddress(p, ipv4) ==
    IF p.net THEN (IF ipv4 # "" THEN ipv4 ELSE Null) ELSE p.addr

\* if sm&VMStateNet != 0 && len(config.QemuNetworks) > 0 { ... if mac != "" &&
\* config.Agent == 1 {
PollEngaged(p) == p.net /\ p.networks > 0 /\ p.mac # "" /\ p.agent = 1

\* A party blocked in a send / a receive on channel ch.  The task's receive on
\* stopchan and the caller's send on it are both in a select with a default
\* branch: neither ever blocks.
ParkedSender(ch) ==
    \/ ch = "ipv4chan" /\ poll.task = "sendipv4"
    \/ ch = "errchan" /\ poll.task = "senderr"
ParkedReceiver(ch) == poll.pc = "select" /\ ch \in {"ipv4chan", "errchan"}

\* Variant of TimeoutResult: the deadline ends the wait like an empty answer.
TimeoutResult_Empty == [result |-> "ok", err |-> ""]

\* case <-dl: return errors.New("timeout waiting for agent to start")
TimeoutResult == [result |-> "error", err |-> "timeout waiting for agent to start"]

\* The read reaches the network part: it starts the timer and the task and
\* waits, or skips polling.
PollBegin ==
    /\ poll.pc = "start"
    /\ poll' = IF PollEngaged(poll)
               THEN [poll EXCEPT !.pc = "select", !.task = "check"]
               ELSE [poll EXCEPT !.pc = "returned", !.result = "ok",
                                 !.addr = StoreAddress(poll, "")]
    /\ UNCHANGED <<lifecycleVars, disks, fld>>

\* <-dl becomes ready: the five minutes are over.
Deadline ==
    /\ poll.pc = "select"
    /\ ~poll.dl
    /\ poll' = [poll EXCEPT !.dl = TRUE]
    /\ UNCHANGED <<lifecycleVars, disks, fld>>

\* The task's select { case <-stopchan: return; default: } and the start of
\* the next client.GetVmAgentNetworkInterfaces.
TaskCheck ==
    /\ poll.task = "check"
    /\ poll' = IF ParkedSender("stopchan")
               THEN [poll EXCEPT !.task = "exit", !.stopped = TRUE]
               ELSE [poll EXCEPT !.task = "query", !.queries = SatQ(@),
                                 !.late = @ \/ poll.pc = "returned"]
    /\ UNCHANGED <<lifecycleVars, disks, fld>>

\* Variant of AfterReply: "agent is not running" is passed on like any error.
AfterReply_NotRunningFatal(reply) ==
    CASE reply \in {"fatal", "notrunning"} -> "senderr"
      [] reply = "address" -> "sendipv4"
      [] OTHER -> "sleep"

\* What the task does with the reply of a query: "500 QEMU guest agent is not
\* running" -> sleep and continue; another error -> errchan <- err; a global
\* unicast IPv4 address on the interface -> ipv4chan <- addr; else sleep.
AfterReply(reply) ==
    CASE reply = "fatal" -> "senderr"
      [] reply = "address" -> "sendipv4"
      [] OTHER -> "sleep"

\* The agent query returns (it may also never return): the agent is not
\* running, another error, interfaces with or without a usable address.
TaskQuery ==
    /\ poll.task = "query"
    /\ \E reply \in {"notrunning", "fatal", "address", "noaddress"} :
          poll' = [poll EXCEPT !.task = AfterReply(reply), !.last = reply]
    /\ UNCHANGED <<lifecycleVars, disks, fld>>

\* time.Sleep(2 * time.Second); continue
TaskSleep ==
    /\ poll.task = "sleep"
    /\ poll' = [poll EXCEPT !.task = "check"]
    /\ UNCHANGED <<lifecycleVars, disks, fld>>

\* ipv4chan <- addr.String() meets case ipv4 = <-ipv4chan.
RecvIpv4 ==
    /\ ParkedSender("ipv4chan") /\ ParkedReceiver("ipv4chan")
    /\ poll' = [poll EXCEPT !.pc = "deferred", !.task = "exit",
                            !.result = "ok", !.ipv4 = "192.0.2.1",
                            !.addr = StoreAddress(poll, "192.0.2.1")]
    /\ UNCHANGED <<lifecycleVars, disks, fld>>

\* errchan <- err meets case err = <-errchan: return err.
RecvErr ==
    /\ ParkedSender("errchan") /\ ParkedReceiver("errchan")
    /\ poll' = [poll EXCEPT !.pc = "deferred", !.task = "exit",
                            !.result = "error", !.err = "agent query failed"]
    /\ UNCHANGED <<lifecycleVars, disks, fld>>

\* case <-dl.
RecvDeadline ==
    /\ poll.pc = "select"
    /\ poll.dl
    /\ poll' = [poll EXCEPT !.pc = "deferred", !.result = TimeoutResult.result,
                            !.err = TimeoutResult.err]
    /\ UNCHANGED <<lifecycleVars, disks, fld>>

\* The deferred select { case stopchan <- true: default: } as the read returns.
CallerDefer ==
    /\ poll.pc = "deferred"
    /\ poll' = IF ParkedReceiver("stopchan")
               THEN [poll EXCEPT !.pc = "returned", !.stopped = TRUE]
               ELSE [poll EXCEPT !.pc = "returned"]
    /\ UNCHANGED <<lifecycleVars, disks, fld>>

InitPoll ==
    /\ NoLifecycle
    /\ disks = None /\ fld = None
    /\ poll \in [pc : {"start"}, task : {"none"}, dl : {FALSE}, stopped : {FALSE},
                 result : {"none"}, err : {""}, ipv4 : {""}, queries : {0}, late : {FALSE},
                 last : {"none"}, addr : {Null, "198.51.100.7"},
                 net : BOOLEAN, networks : {0, 1},
                 mac : {"", "aa:bb:cc:dd:ee:ff"}, agent : {0, 1}]

CallerStep == PollBegin \/ RecvIpv4 \/ RecvErr \/ RecvDeadline \/ CallerDefer

NextPoll ==
    \/ PollBegin
    \/ Deadline
    \/ TaskCheck
    \/ TaskQuery
    \/ TaskSleep
    \/ RecvIpv4
    \/ RecvErr
    \/ RecvDeadline
    \/ CallerDefer

\* The caller runs on and the timer fires; the task's query may never return.
SpecPoll == InitPoll /\ [][NextPoll]_vars /\ WF_vars(CallerStep) /\ WF_vars(Deadline)

\* --------------------------------------------- attachment diff (container)
\* types.ObjectNull(): an object attribute holds no or one object.
NullObject == <<>>
\* A value the plan leaves to the provider (IsUnknown()).
UnknownString == "<unknown>"

\* types.String.ValueString(): "" for null.
ValueString(v) == IF v \in {Null, UnknownString} THEN "" ELSE v

\* A device is an untyped map; a key may be missing.  Values are kept as
\* strings; Nil is what a lookup of a missing key yields.
Nil == "nil"
Get(d, k) == IF k \in DOMAIN d THEN d[k] ELSE Nil
Opt(k, v) == IF v = Nil THEN [x \in {} |-> Nil] ELSE (k :> v)

\* oldDisks := pveapi.QemuDevices{0: oldRootfs}; newDisks likewise.
DiskKeys == {0}
SlotNames == {"rootfs", "mp0", "mp1"}

\* Previous devices, as read from the platform, and desired devices.
PrevDevices ==
    { Opt("slot", sl) @@ ("volume" :> "local:vol-A") @@ ("storage" :> "local") @@ ("size" :> "8G") :
        sl \in {Nil, "0", "1"} }
NewDevices ==
    { Opt("slot", sl) @@ Opt("volume", v) @@ Opt("storage", st) @@ Opt("size", z) :
        sl \in {Nil, "0", "1"}, v \in {Nil, "", "local:vol-A", "local:vol-B"},
        st \in {Nil, "local", "fast"}, z \in {Nil, "8G", "16G"} }
DeviceSets(D) == {[x \in {} |-> Nil]} \cup {k :> d : k \in DiskKeys, d \in D}

diskSlotName(disk) ==
    LET diskType == IF Get(disk, "type") \in {Nil, ""} THEN "mp" ELSE disk["type"]
    IN  IF "slot" \notin DOMAIN disk THEN "rootfs" ELSE diskType \o disk["slot"]

\* The test of the delete loop for one previous key.
ToDelete(prevDisks, newDisks, key) ==
    LET ok == key \in DOMAIN newDisks
    IN  /\ ~(ok /\ diskSlotName(newDisks[key]) = "rootfs")
        /\ \/ ~ok
           \/ /\ Get(newDisks[key], "volume") # ""
              /\ Get(prevDisks[key], "volume") # Get(newDisks[key], "volume")
           \/ Get(prevDisks[key], "slot") # Get(newDisks[key], "slot")

\* for k, v := range prevDisk { if _, ok := newDisk[k]; !ok { newDisk[k] = v } }
Merged(newDisk, prevDisk) == newDisk @@ prevDisk

\* The nil map (a QemuDevice never made): it reads like an empty one, and an
\* assignment to one of its entries is a run-time panic.
NilDevice == [x \in {} |-> Nil]

\* The keys at which the create loop assigns to an entry of a nil desired
\* device: the previous device has a key the desired one lacks.
NilMapWrites(nilNew, newDisks, prevDisks) ==
    {k \in nilNew \cap DOMAIN newDisks \cap DOMAIN prevDisks :
        DOMAIN prevDisks[k] \ DOMAIN newDisks[k] # {}}

\* "panic: assignment to entry in nil map": the engine returns nothing, no
\* error value either; the run ends where the write was attempted.
Panicked == [disks EXCEPT !.pc = "panicked"]

\* The platform's answer to a call on a slot: a create attaches the named
\* volume or allocates one, a move allocates on the target storage, a resize
\* keeps the volume; move and resize need an attached slot.
Attach(remote, name, disk) ==
    [remote EXCEPT ![name] = IF Get(disk, "volume") \in {Nil, ""} THEN "local:vol-new"
                             ELSE disk["volume"]]

\* Variant of PassAfter: the configuration is re-read before the moves.
PassAfter_ReReadEarly(pass) ==
    CASE pass = "delete" -> "create"
      [] pass = "create" -> "reread"
      [] pass = "reread" -> "move"
      [] pass = "move" -> "resize"
      [] OTHER -> "done"

\* The order of the passes in the body of applyLxcDiskChanges.
PassAfter(pass) ==
    CASE pass = "delete" -> "create"
      [] pass = "create" -> "move"
      [] pass = "move" -> "resize"
      [] pass = "resize" -> "reread"
      [] OTHER -> "done"

\* Variant of VolumeFromAPI: the device keeps the volume it had.
VolumeFromAPI_Kept(remote, disk) == Get(disk, "volume")

\* apiDevice := pveapi.ParsePMConf(apiConfigStr, "volume"); apiDevice["volume"]
VolumeFromAPI(remote, disk) == remote[diskSlotName(disk)]

\* 1. the delete loop and the bulk delete call
DeletePass ==
    /\ disks.pc = "delete"
    /\ LET marked == {k \in DOMAIN disks.prev : ToDelete(disks.prev, disks.new, k)}
           names  == {diskSlotName(disks.prev[k]) : k \in marked}
       IN  IF marked = {}
           THEN disks' = [disks EXCEPT !.pc = PassAfter("delete")]
           ELSE \E ok \in BOOLEAN :
                  disks' = [disks EXCEPT
                      !.calls = Append(@, [kind |-> "delete", names |-> names]),
                      !.remote = IF ok THEN [n \in SlotNames |-> IF n \in names THEN Nil ELSE @[n]]
                                 ELSE @,
                      !.err = IF ok THEN @ ELSE "delete",
                      !.pc = IF ok THEN PassAfter("delete") ELSE "failed"]
    /\ UNCHANGED <<lifecycleVars, poll, fld>>

\* the create loop and its one config call
CreatePass ==
    /\ disks.pc = "create"
    /\ LET merged == [k \in DOMAIN disks.new |->
                        IF k \in DOMAIN disks.prev THEN Merged(disks.new[k], disks.prev[k])
                        ELSE disks.new[k]]
           made   == {k \in DOMAIN disks.new :
                        \/ k \notin DOMAIN disks.prev
                        \/ Get(merged[k], "slot") # Get(disks.prev[k], "slot")}
           names  == {diskSlotName(disks.new[k]) : k \in made}
       IN  IF NilMapWrites(disks.nilNew, disks.new, disks.prev) # {}
           THEN disks' = Panicked
           ELSE IF made = {}
           THEN disks' = [disks EXCEPT !.new = merged, !.pc = PassAfter("create")]
           ELSE \E ok \in BOOLEAN :
                  disks' = [disks EXCEPT
                      !.new = merged,
                      !.calls = Append(@, [kind |-> "create", names |-> names]),
                      !.remote = IF ok
                                 THEN [n \in SlotNames |->
                                         IF \E k \in made : diskSlotName(disks.new[k]) = n
                                         THEN LET k == CHOOSE k \in made : diskSlotName(disks.new[k]) = n
                                              IN  Attach(@, n, merged[k])[n]
                                         ELSE @[n]]
                                 ELSE @,
                      !.err = IF ok THEN @ ELSE "create",
                      !.pc = IF ok THEN PassAfter("create") ELSE "failed"]
    /\ UNCHANGED <<lifecycleVars, poll, fld>>

\* 2. move a device whose storage differs
MovePass ==
    /\ disks.pc = "move"
    /\ LET both == DOMAIN disks.prev \cap DOMAIN disks.new
           moved == {k \in both : /\ Get(disks.new[k], "storage") # Nil
                                  /\ disks.new[k]["storage"] # Get(disks.prev[k], "storage")}
       IN  IF moved = {}
           THEN disks' = [disks EXCEPT !.pc = PassAfter("move")]
           ELSE \E k \in moved, answer \in BOOLEAN :
                  LET name == diskSlotName(disks.prev[k])
                      ok   == answer /\ disks.remote[name] # Nil
                  IN  disks' = [disks EXCEPT
                          !.calls = Append(@, [kind |-> "move", names |-> {name}]),
                          !.remote = IF ok THEN [@ EXCEPT ![name] = disks.new[k]["storage"] \o ":vol-moved"]
                                     ELSE @,
                          !.err = IF ok THEN @ ELSE "move",
                          !.pc = IF ok THEN PassAfter("move") ELSE "failed"]
    /\ UNCHANGED <<lifecycleVars, poll, fld>>

\* 3. processDiskResize
ResizePass ==
    /\ disks.pc = "resize"
    /\ LET both == DOMAIN disks.prev \cap DOMAIN disks.new
           resized == {k \in both : /\ "size" \in DOMAIN disks.new[k]
                                    /\ disks.new[k]["size"] # Get(disks.prev[k], "size")}
       IN  IF resized = {}
           THEN disks' = [disks EXCEPT !.pc = PassAfter("resize")]
           ELSE \E k \in resized, answer \in BOOLEAN :
                  LET name == diskSlotName(disks.new[k])
                      ok   == answer /\ disks.remote[name] # Nil
                  IN  disks' = [disks EXCEPT
                          !.calls = Append(@, [kind |-> "resize", names |-> {name}]),
                          !.err = IF ok THEN @ ELSE "resize",
                          !.pc = IF ok THEN PassAfter("resize") ELSE "failed"]
    /\ UNCHANGED <<lifecycleVars, poll, fld>>

\* Update Volume info: GetVmConfig and the volume of every desired device.
ReRead ==
    /\ disks.pc = "reread"
    /\ \E answer \in BOOLEAN :
          LET reported == \A k \in DOMAIN disks.new :
                              disks.remote[diskSlotName(disks.new[k])] # Nil
              ok == answer /\ reported
          IN  disks' = IF ok /\ disks.nilNew \cap DOMAIN disks.new # {}
                       THEN [Panicked EXCEPT
                                !.calls = Append(@, [kind |-> "reread", names |-> {}])]
                       ELSE [disks EXCEPT
                  !.calls = Append(@, [kind |-> "reread", names |-> {}]),
                  !.err = IF ok THEN @ ELSE IF answer THEN "notstring" ELSE "reread",
                  !.new = IF ok
                          THEN [k \in DOMAIN @ |->
                                  ("volume" :> VolumeFromAPI(disks.remote, @[k])) @@ @[k]]
                          ELSE @,
                  !.pc = IF ok THEN PassAfter("reread") ELSE "failed"]
    /\ UNCHANGED <<lifecycleVars, poll, fld>>

\* ---- the container Update around the diff engine
\* The storage part of a volume reference: strings.Split(volume, ":")[0].
StorageOf(volume) ==
    CASE volume = "local:vol-A" -> "local"
      [] volume = "fast:vol-moved" -> "fast"
      [] OTHER -> volume

\* rootfsModel.writeToAPIConfig
rootfsWriteToAPIConfig(m) ==
    ("size" :> ValueString(m.size)) @@
    (IF m.volume # UnknownString
     THEN ("volume" :> ValueString(m.volume)) @@ ("storage" :> StorageOf(ValueString(m.volume)))
     ELSE ("storage" :> ValueString(m.storage)))

\* rootfsAPIConfigFromStateValue: a null object gives the nil map.
rootfsAPIConfigFromStateValue(o) ==
    IF o = NullObject THEN NilDevice ELSE rootfsWriteToAPIConfig(o[1])

\* The rootfs of the prior state, as the last read stored it.
StateRootfs == <<[volume |-> "local:vol-A", storage |-> "local", size |-> "8G"]>>
\* The rootfs of the plan: the prior state's when nothing of it changes, else
\* the configured storage and size with a volume still to be computed.
PlanRootfs ==
    {StateRootfs} \cup
    {<<[volume |-> UnknownString, storage |-> st, size |-> z]>> :
        st \in {"local", "fast"}, z \in {"8G", "16G"}}

UCall(name) == [kind |-> name, names |-> {}]
UReturn(d) == [disks EXCEPT !.pc = "returned", !.diag = d]

\* Variant of RootfsDiffers: the diff engine runs on every Update.
RootfsDiffers_Always(state, plan) == TRUE

\* if state.RootFs.IsNull() != plan.RootFs.IsNull() || !state.RootFs.Equal(plan.RootFs)
RootfsDiffers(state, plan) ==
    (state = NullObject) # (plan = NullObject) \/ state # plan

\* Update up to the call of the diff engine.
LxcUpdateBegin ==
    /\ disks.pc = "start"
    /\ disks' = IF RootfsDiffers(disks.rootfs, disks.plan)
                THEN LET oldRootfs == rootfsAPIConfigFromStateValue(disks.rootfs)
                         newRootfs == rootfsAPIConfigFromStateValue(disks.plan)
                     IN  [disks EXCEPT !.pc = "delete", !.prev = 0 :> oldRootfs,
                                       !.new = 0 :> newRootfs, !.desired = 0 :> newRootfs,
                                       !.nilNew = IF disks.plan = NullObject THEN {0} ELSE {}]
                ELSE [disks EXCEPT !.pc = "config"]
    /\ UNCHANGED <<lifecycleVars, poll, fld>>

\* Variant of DiffFailed: the engine's error is dropped.
DiffFailed_Ignored(d) == FALSE

\* err = applyLxcDiskChanges(...); err != nil
DiffFailed(d) == d.pc = "failed"

\* if err != nil { AddError; return }; config.RootFs = newRootfs
LxcUpdateAfterDiff ==
    /\ disks.caller = "Update"
    /\ disks.pc \in {"done", "failed"}
    /\ disks' = IF DiffFailed(disks) THEN UReturn("Could not update LXC disks")
                ELSE [disks EXCEPT !.pc = "config"]
    /\ UNCHANGED <<lifecycleVars, poll, fld>>

\* config.UpdateConfig
LxcUpdateConfig ==
    /\ disks.pc = "config"
    /\ \E ok \in BOOLEAN :
          disks' = [(IF ok THEN [disks EXCEPT !.pc = "pending"] ELSE UReturn("Could not update LXC"))
                      EXCEPT !.calls = Append(@, UCall("UpdateConfig"))]
    /\ UNCHANGED <<lifecycleVars, poll, fld>>

\* pveapi.GuestHasPendingChanges
LxcUpdatePending ==
    /\ disks.pc = "pending"
    /\ \E ok \in BOOLEAN, reboot \in BOOLEAN :
          disks' = [(IF ok THEN [disks EXCEPT !.pc = IF reboot THEN "rstop" ELSE "read1"]
                     ELSE UReturn("Unable to determine if LXC needs reboot"))
                      EXCEPT !.calls = Append(@, UCall("GuestHasPendingChanges"))]
    /\ UNCHANGED <<lifecycleVars, poll, fld>>

\* The stop and the start of the reboot.
LxcUpdateRebootStop ==
    /\ disks.pc = "rstop"
    /\ \E ok \in BOOLEAN :
          disks' = [(IF ok THEN [disks EXCEPT !.pc = "rstart", !.status = stateStopped]
                     ELSE UReturn("Could not stop LXC as part of reboot"))
                      EXCEPT !.calls = Append(@, UCall("StopVm"))]
    /\ UNCHANGED <<lifecycleVars, poll, fld>>

LxcUpdateRebootStart ==
    /\ disks.pc = "rstart"
    /\ \E ok \in BOOLEAN :
          disks' = [(IF ok THEN [disks EXCEPT !.pc = "read1", !.status = stateRunning]
                     ELSE UReturn("Could not start LXC as part of reboot"))
                      EXCEPT !.calls = Append(@, UCall("StartVm"))]
    /\ UNCHANGED <<lifecycleVars, poll, fld>>

\* UpdateLXCResourceModelFromAPI(..., LXCStateEverything)
LxcUpdateReadBack ==
    /\ disks.pc = "read1"
    /\ \E ok \in BOOLEAN :
          disks' = [(IF ok THEN [disks EXCEPT !.pc = "power", !.seen = disks.status]
                     ELSE UReturn("Could not read back updated LXC status"))
                      EXCEPT !.calls = Append(@, UCall("ReadEverything"))]
    /\ UNCHANGED <<lifecycleVars, poll, fld>>

\* if plan.Status != newState.Status: StartVm or StopVm
LxcUpdatePower ==
    /\ disks.pc = "power"
    /\ IF disks.planStatus = disks.seen
       THEN disks' = [disks EXCEPT !.pc = "read2"]
       ELSE \E ok \in BOOLEAN :
              disks' = [(IF ok THEN [disks EXCEPT !.pc = "read2", !.status = disks.planStatus]
                         ELSE UReturn("Could not switch LXC"))
                          EXCEPT !.calls = Append(@, UCall(IF disks.planStatus = stateRunning
                                                           THEN "StartVm" ELSE "StopVm"))]
    /\ UNCHANGED <<lifecycleVars, poll, fld>>

\* UpdateLXCResourceModelFromAPI(..., LXCStateStatus) and resp.State.Set
LxcUpdateReadStatus ==
    /\ disks.pc = "read2"
    /\ \E ok \in BOOLEAN :
          disks' = [(IF ok THEN [UReturn("none") EXCEPT !.seen = disks.status, !.wrote = TRUE]
                     ELSE UReturn("Could not read back updated LXC status"))
                      EXCEPT !.calls = Append(@, UCall("ReadStatus"))]
    /\ UNCHANGED <<lifecycleVars, poll, fld>>

\* The platform at the call: every previous device is attached under its slot
\* name with its volume; a container always has its root file system.  The
\* engine is entered with any two sets, or from a container Update.
InitDisks ==
    /\ NoLifecycle
    /\ poll = None /\ fld = None
    /\ \/ \E p \in DeviceSets(PrevDevices \cup {NilDevice}), n \in DeviceSets(NewDevices) :
         \E nils \in SUBSET {k \in DOMAIN n : n[k] = NilDevice} :
            disks = [pc |-> "delete", caller |-> "engine", prev |-> p, new |-> n, desired |-> n,
                     nilNew |-> nils, calls |-> <<>>, err |-> "none",
                     remote |-> [s \in SlotNames |->
                                   IF \E k \in DOMAIN p : diskSlotName(p[k]) = s
                                   THEN "local:vol-A"
                                   ELSE IF s = "rootfs" THEN "local:vol-R" ELSE Nil],
                     rootfs |-> NullObject, plan |-> NullObject,
                     status |-> stateStopped, planStatus |-> stateStopped, seen |-> "none",
                     diag |-> "none", wrote |-> FALSE]
       \/ \E plan \in PlanRootfs, st \in {stateRunning, stateStopped},
             pst \in {stateRunning, stateStopped} :
            disks = [pc |-> "start", caller |-> "Update",
                     prev |-> [x \in {} |-> Nil], new |-> [x \in {} |-> Nil],
                     desired |-> [x \in {} |-> Nil],
                     nilNew |-> {}, calls |-> <<>>, err |-> "none",
                     remote |-> [s \in SlotNames |->
                                   IF s = "rootfs" THEN StateRootfs[1].volume ELSE Nil],
                     rootfs |-> StateRootfs, plan |-> plan,
                     status |-> st, planStatus |-> pst, seen |-> "none",
                     diag |-> "none", wrote |-> FALSE]

NextDisks ==
    \/ DeletePass
    \/ CreatePass
    \/ MovePass
    \/ ResizePass
    \/ ReRead
    \/ LxcUpdateBegin
    \/ LxcUpdateAfterDiff
    \/ LxcUpdateConfig
    \/ LxcUpdatePending
    \/ LxcUpdateRebootStop
    \/ LxcUpdateRebootStart
    \/ LxcUpdateReadBack
    \/ LxcUpdatePower
    \/ LxcUpdateReadStatus

SpecDisks == InitDisks /\ [][NextDisks]_vars

\* ------------------------------------------ field translation and reads
\* The platform's slot holds no or one device.
NoDisk == <<>>
\* No model is stored / no configuration exists yet.
NoModel == [absent |-> TRUE]

\* Variant of StringFromAPI: the platform's string is stored as it is.
StringFromAPI_Verbatim(str) == str

\* if config.Name == "" { model.Name = types.StringNull() } else { ... }
StringFromAPI(str) == IF str = "" THEN Null ELSE str

\* Variant of virtioWriteToAPIConfig: the size is sent in the unit of the spec.
virtioWriteToAPIConfig_NoUnit(m) ==
    <<[storage |-> m[1].storage, sizeKiB |-> m[1].size]>>

\* virtioModel.writeToAPIConfig
virtioWriteToAPIConfig(m) ==
    <<[storage |-> m[1].storage, sizeKiB |-> m[1].size * 1024 * 1024]>>

\* virtioModel.readFromAPIConfig: whole gibibytes, integer division.
virtioReadFromAPIConfig(c) ==
    <<[storage |-> c[1].storage, size |-> c[1].sizeKiB \div (1024 * 1024)]>>

virtioStateValueFromAPIConfig(c) ==
    IF c = NoDisk THEN NullObject ELSE virtioReadFromAPIConfig(c)

\* The configuration sent to the platform for a desired VM.
apiConfigFromVMResourceModel(model) ==
    [name        |-> ValueString(model.name),
     description |-> ValueString(model.description),
     agent       |-> IF model.agent THEN 1 ELSE 0,
     sockets     |-> model.sockets,
     cores       |-> model.cores,
     memory      |-> model.memory,
     virtio0     |-> IF model.virtio0 = NullObject THEN NoDisk
                     ELSE virtioWriteToAPIConfig(model.virtio0)]

\* The configuration sent to the platform for a desired container.
apiConfigFromLXCResourceModel(model) ==
    [ostemplate |-> model.ostemplate,
     hostname   |-> ValueString(model.hostname),
     password   |-> ValueString(model.password),
     sshkeys    |-> ValueString(model.ssh_public_keys)]

\* The configuration part of the state read: the fields it overwrites in the
\* model it is handed; it leaves every other field of the model alone.
VMConfigFromAPI(remote, model) ==
    [model EXCEPT !.name = StringFromAPI(remote.name),
                  !.description = StringFromAPI(remote.description),
                  !.agent = remote.agent > 0,
                  !.sockets = remote.sockets,
                  !.cores = remote.cores,
                  !.memory = remote.memory,
                  !.virtio0 = virtioStateValueFromAPIConfig(remote.virtio0)]
LXCConfigFromAPI(remote, model) == [model EXCEPT !.hostname = remote.hostname]

ConfigFromAPI(kind, remote, model) ==
    IF kind = "vm" THEN VMConfigFromAPI(remote, model) ELSE LXCConfigFromAPI(remote, model)

\* The status part of the state read.
StatusFromAPI(remote, model) == [model EXCEPT !.status = remote.status]

\* UpdateVMResourceModelFromAPI / UpdateLXCResourceModelFromAPI with the mask
\* for everything.
EverythingFromAPI(kind, remote, model) ==
    StatusFromAPI(remote, ConfigFromAPI(kind, remote, model))

\* The platform after a successful configuration call: it holds what was sent
\* (the secrets of a container are kept by the guest, not reported).
Adopt(kind, remote, config) ==
    IF kind = "vm"
    THEN config @@ [status |-> remote.status]
    ELSE [hostname |-> config.hostname, status |-> remote.status]

\* Variant of CarryOver: the new model starts empty.
CarryOver_Nothing(kind, plan, state) ==
    IF kind = "vm"
    THEN [name |-> Null, description |-> Null, agent |-> FALSE, sockets |-> 0, cores |-> 0,
          memory |-> 0, virtio0 |-> NullObject, status |-> Null, clone |-> Null]
    ELSE [hostname |-> Null, status |-> Null, ostemplate |-> Null,
          password |-> Null, ssh_public_keys |-> Null]

\* var state vmResourceModel; state.Clone = plan.Clone -- and for a container
\* newState.Ostemplate = state.Ostemplate, .Password, .SSHPublicKeys.
CarryOver(kind, plan, state) ==
    IF kind = "vm"
    THEN [name |-> Null, description |-> Null, agent |-> FALSE, sockets |-> 0, cores |-> 0,
          memory |-> 0, virtio0 |-> NullObject, status |-> Null, clone |-> plan.clone]
    ELSE [hostname |-> Null, status |-> Null, ostemplate |-> state.ostemplate,
          password |-> state.password, ssh_public_keys |-> state.ssh_public_keys]

\* Desired specs.
VMPlans ==
    [name : {Null, "wall-e"}, description : {Null}, agent : {FALSE},
     sockets : {1}, cores : {4}, memory : {36},
     virtio0 : {NullObject, <<[storage |-> "local-lvm", size |-> 1]>>},
     status : {stateRunning, stateStopped}, clone : {"template"}]
LXCPlans ==
    [hostname : {"wall-e"}, status : {stateRunning, stateStopped},
     ostemplate : {"local:vztmpl/alpine"}, password : {Null, "secret"},
     ssh_public_keys : {"ssh-rsa AAAA"}]

\* What another interface can set a field of the platform's configuration to.
OobValues(kind) ==
    IF kind = "vm"
    THEN [name |-> {"", "wall-e", "m-o"}, description |-> {"", "robot"},
          agent |-> {0, 1}, sockets |-> {1, 2}, cores |-> {4, 2}, memory |-> {36, 30},
          virtio0 |-> {NoDisk} \cup
                      {<<[storage |-> "local-lvm", sizeKiB |-> z]>> :
                          z \in {1024 * 1024, 1536 * 1024, 2048 * 1024}},
          status |-> {stateRunning, stateStopped}]
    ELSE [hostname |-> {"wall-e", "m-o"}, status |-> {stateRunning, stateStopped}]

\* What the operator can change in the desired spec.
EditValues(kind) ==
    IF kind = "vm"
    THEN [memory |-> {36, 40}, clone |-> {Null, "template"}]
    ELSE [password |-> {Null, "secret"}]

\* Create: the configuration is pushed (a clone that needs a reboot is
\* stopped and started), a guest desired running is started, and the plan
\* itself is filled from the platform and stored: everything for a VM, the
\* configuration for a container.
FldCreate ==
    /\ fld.pc = "absent"
    /\ \E reboot \in BOOLEAN :
       LET kind   == fld.kind
           config == IF kind = "vm" THEN apiConfigFromVMResourceModel(fld.plan)
                     ELSE apiConfigFromLXCResourceModel(fld.plan)
           status == IF kind = "vm" /\ fld.plan.clone # Null /\ reboot THEN stateRunning
                     ELSE fld.plan.status
           remote == Adopt(kind, [status |-> status], config)
       IN  fld' = [fld EXCEPT !.pc = "idle", !.remote = remote,
                              !.state = IF kind = "vm"
                                        THEN EverythingFromAPI(kind, remote, fld.plan)
                                        ELSE ConfigFromAPI(kind, remote, fld.plan),
                              !.op = "Create", !.ok = TRUE, !.trail = "fresh"]
    /\ UNCHANGED <<lifecycleVars, poll, disks>>

\* Another interface changes one field on the platform.
FldOob ==
    /\ fld.pc = "idle"
    /\ fld.oob < MaxOob
    /\ \E f \in DOMAIN OobValues(fld.kind) : \E v \in OobValues(fld.kind)[f] :
          /\ fld.remote[f] # v
          /\ fld' = [fld EXCEPT !.remote = [@ EXCEPT ![f] = v], !.oob = @ + 1, !.drift = f,
                                !.op = "Oob", !.ok = TRUE, !.trail = "oob"]
    /\ UNCHANGED <<lifecycleVars, poll, disks>>

\* The operator edits the desired spec.
FldEdit ==
    /\ fld.pc = "idle"
    /\ fld.edits < MaxEdits
    /\ \E f \in DOMAIN EditValues(fld.kind) : \E v \in EditValues(fld.kind)[f] :
          /\ fld.plan[f] # v
          /\ fld' = [fld EXCEPT !.plan = [@ EXCEPT ![f] = v], !.edits = @ + 1,
                                !.op = "Edit", !.ok = TRUE, !.trail = "edited"]
    /\ UNCHANGED <<lifecycleVars, poll, disks>>

\* Read: the prior state is filled from the platform and stored; on an error
\* nothing is stored.
FldRead ==
    /\ fld.pc = "idle"
    /\ \E ok \in BOOLEAN :
          fld' = [fld EXCEPT
              !.state = IF ok THEN EverythingFromAPI(fld.kind, fld.remote, @) ELSE @,
              !.op = "Read", !.ok = ok,
              !.trail = IF ok /\ @ \in {"oob", "oob-read"} THEN "oob-read" ELSE "other"]
    /\ UNCHANGED <<lifecycleVars, poll, disks>>

\* Update: the plan's configuration is pushed; a pending change reboots the
\* guest; a new model with the carried-over fields is filled from the
\* platform; the guest is switched to the desired status; the status is read
\* again and the model stored.  A failing call ends the handler with nothing
\* stored.
FldUpdate ==
    /\ fld.pc = "idle"
    /\ \E failsAt \in {"none", "config", "read"}, reboot \in BOOLEAN :
          LET kind     == fld.kind
              config   == IF kind = "vm" THEN apiConfigFromVMResourceModel(fld.plan)
                          ELSE apiConfigFromLXCResourceModel(fld.plan)
              pushed   == Adopt(kind, fld.remote, config)
              rebooted == IF reboot THEN [pushed EXCEPT !.status = stateRunning] ELSE pushed
              readBack == EverythingFromAPI(kind, rebooted, CarryOver(kind, fld.plan, fld.state))
              switched == IF fld.plan.status # readBack.status
                          THEN [rebooted EXCEPT !.status = fld.plan.status]
                          ELSE rebooted
              newState == StatusFromAPI(switched, readBack)
          IN  fld' = [fld EXCEPT
                  !.remote = CASE failsAt = "config" -> @
                               [] failsAt = "read" -> rebooted
                               [] OTHER -> switched,
                  !.state = IF failsAt = "none" THEN newState ELSE @,
                  !.op = "Update", !.ok = (failsAt = "none"),
                  !.trail = IF failsAt = "none" /\ @ = "oob-read" THEN "oob-read-update"
                            ELSE "other"]
    /\ UNCHANGED <<lifecycleVars, poll, disks>>

InitFld ==
    /\ NoLifecycle
    /\ poll = None /\ disks = None
    /\ \E kind \in {"vm", "lxc"} :
       \E plan \in IF kind = "vm" THEN VMPlans ELSE LXCPlans :
          fld = [pc |-> "absent", kind |-> kind, plan |-> plan, remote |-> NoModel,
                 state |-> NoModel, op |-> "none", ok |-> TRUE,
                 trail |-> "fresh", drift |-> "none", oob |-> 0, edits |-> 0]

NextFld ==
    \/ FldCreate
    \/ FldOob
    \/ FldEdit
    \/ FldRead
    \/ FldUpdate

SpecFld == InitFld /\ [][NextFld]_vars

\* ---- the state readers under any mask
\* The bits a mask of the kind's reader can hold.
MaskBits(kind) == IF kind = "vm" THEN {"config", "status", "net"} ELSE {"config", "status"}

\* Variant of ModelFromAPI: every part is stored whatever the mask.
ModelFromAPI_Everything(kind, remote, model, mask, ipv4) ==
    LET s == StatusFromAPI(remote, ConfigFromAPI(kind, remote, model))
    IN  IF kind = "vm"
        THEN [s EXCEPT !.ipv4_address = StoreAddress([net |-> TRUE, addr |-> @], ipv4)]
        ELSE s

\* The closing part of UpdateVMResourceModelFromAPI / UpdateLXCResourceModelFromAPI:
\* if sm&...Config != 0 { ... }; if sm&...Status != 0 { model.Status = ... };
\* if sm&VMStateNet != 0 { model.IPV4Address = ... }.
ModelFromAPI(kind, remote, model, mask, ipv4) ==
    LET c == IF "config" \in mask THEN ConfigFromAPI(kind, remote, model) ELSE model
        s == IF "status" \in mask THEN StatusFromAPI(remote, c) ELSE c
    IN  IF kind = "vm"
        THEN [s EXCEPT !.ipv4_address =
                  StoreAddress([net |-> "net" \in mask, addr |-> @], ipv4)]
        ELSE s

\* The models a reader is handed and the configurations it can find.
ReaderModels(kind) ==
    IF kind = "vm"
    THEN {m @@ [ipv4_address |-> a] : m \in VMPlans, a \in {Null, "198.51.100.7"}}
    ELSE LXCPlans
ReaderRemotes(kind) ==
    IF kind = "vm"
    THEN [name : {"", "m-o"}, description : {"robot"}, agent : {0, 1}, sockets : {2},
          cores : {2}, memory : {30},
          virtio0 : {NoDisk, <<[storage |-> "local-lvm", sizeKiB |-> 2048 * 1024]>>},
          status : {stateRunning, stateStopped}]
    ELSE [hostname : {"m-o"}, status : {stateRunning, stateStopped}]

RdReturn(e) == [fld EXCEPT !.pc = "returned", !.err = e]

\* if sm&VMStateConfig != 0 { config, err = pveapi.NewConfigQemuFromApi(...) }
RdConfig ==
    /\ fld.pc = "config"
    /\ IF "config" \in fld.mask
       THEN \E ok \in BOOLEAN :
               fld' = [(IF ok THEN [fld EXCEPT !.pc = "status", !.fetched = TRUE]
                        ELSE RdReturn("GetConfig"))
                       EXCEPT !.calls = Append(@, "GetConfig")]
       ELSE fld' = [fld EXCEPT !.pc = "status"]
    /\ UNCHANGED <<lifecycleVars, poll, disks>>

\* if sm&VMStateStatus != 0 { state, err := client.GetVmState(vmr) ... }
RdStatus ==
    /\ fld.pc = "status"
    /\ IF "status" \in fld.mask
       THEN \E e \in {"none", "GetVmState", "status field in VM state was not a string"} :
               fld' = [(IF e = "none" THEN [fld EXCEPT !.pc = "net"] ELSE RdReturn(e))
                       EXCEPT !.calls = Append(@, "GetVmState")]
       ELSE fld' = [fld EXCEPT !.pc = "net"]
    /\ UNCHANGED <<lifecycleVars, poll, disks>>

\* if sm&VMStateNet != 0 && len(config.QemuNetworks) > 0 { ... }: config is a
\* nil pointer when the configuration was not fetched, and the handler
\* crashes on it; else the agent of a guest that has it enabled is polled.
RdNet ==
    /\ fld.pc = "net"
    /\ IF "net" \notin fld.mask
       THEN fld' = [fld EXCEPT !.pc = "store"]
       ELSE IF ~fld.fetched
       THEN fld' = RdReturn("nil pointer dereference")
       ELSE IF fld.remote.agent # 1
       THEN fld' = [fld EXCEPT !.pc = "store"]
       ELSE \E ok \in BOOLEAN :
               fld' = [(IF ok THEN [fld EXCEPT !.pc = "store", !.ipv4 = "192.0.2.1"]
                        ELSE RdReturn("AgentPoll"))
                       EXCEPT !.calls = Append(@, "AgentQuery")]
    /\ UNCHANGED <<lifecycleVars, poll, disks>>

\* The fetched parts are stored in the model and the reader returns nil; the
\* conversion of a device may fail.
RdStore ==
    /\ fld.pc = "store"
    /\ \/ fld' = [fld EXCEPT !.pc = "returned",
                    !.model = ModelFromAPI(fld.kind, fld.remote, @, fld.mask, fld.ipv4)]
       \/ /\ "config" \in fld.mask
          /\ fld' = RdReturn("conversion")
    /\ UNCHANGED <<lifecycleVars, poll, disks>>

InitReader ==
    /\ NoLifecycle
    /\ poll = None /\ disks = None
    /\ \E kind \in {"vm", "lxc"} :
       \E model \in ReaderModels(kind), remote \in ReaderRemotes(kind),
          mask \in SUBSET MaskBits(kind) :
          fld = [pc |-> "config", kind |-> kind, remote |-> remote, given |-> model,
                 model |-> model, mask |-> mask, calls |-> <<>>, err |-> "none",
                 ipv4 |-> "", fetched |-> FALSE]

NextReader ==
    \/ RdConfig
    \/ RdStatus
    \/ RdNet
    \/ RdStore

SpecReader == InitReader /\ [][NextReader]_vars

\* ---- the configuration draft of a VM: network and disk containers
\* A nil pointer of the draft is NoDisk; a collection holds one entry per slot
\* (two VirtIO and two IDE slots stand for the sixteen and the four).
VirtioSlots == {"virtio0", "virtio1"}
IdeSlots == {"ide0", "ide1"}

\* strings.Split(m.File.ValueString(), ":")
FileParts(f) == IF f = "local:iso/boot.iso" THEN <<"local", "iso/boot.iso">> ELSE <<f>>
\* regexp `^iso/(.*)$` on the second part.
IsoName(part) == IF part = "iso/boot.iso" THEN "boot.iso" ELSE part

\* ideModel.writeToAPIConfig
ideWriteToAPIConfig(m) ==
    LET parts == FileParts(ValueString(m[1].file))
    IN  <<[cdrom |-> IF Len(parts) > 1
                     THEN <<[storage |-> parts[1], file |-> IsoName(parts[2])]>>
                     ELSE NoDisk]>>

\* virtioAPIConfigFromStateValue / ideAPIConfigFromStateValue: nil for a null
\* object.
virtioAPIConfigFromStateValue(o) ==
    IF o = NullObject THEN NoDisk ELSE virtioWriteToAPIConfig(o)
ideAPIConfigFromStateValue(o) ==
    IF o = NullObject THEN NoDisk ELSE ideWriteToAPIConfig(o)

\* Variant of EmptyDisks: the IDE collection is left nil.
EmptyDisks_IdeNil ==
    <<[ide |-> NoDisk, virtio |-> <<[s \in VirtioSlots |-> NoDisk]>>]>>

\* config.Disks = &pveapi.QemuStorages{Ide: &pveapi.QemuIdeDisks{},
\* VirtIO: &pveapi.QemuVirtIODisks{}}
EmptyDisks ==
    <<[ide |-> <<[s \in IdeSlots |-> NoDisk]>>,
      virtio |-> <<[s \in VirtioSlots |-> NoDisk]>>]>>

\* The specs a draft is built from.
DraftModels ==
    [net : {NullObject, <<[model |-> "virtio", bridge |-> "vmbr0"]>>},
     virtio0 : {NullObject, <<[storage |-> "local-lvm", size |-> 1]>>},
     virtio1 : {NullObject, <<[storage |-> "local-lvm", size |-> 2]>>},
     ide0 : {NullObject, <<[file |-> "local:iso/boot.iso"]>>, <<[file |-> "boot.iso"]>>},
     ide1 : {NullObject, <<[file |-> "local:iso/boot.iso"]>>}]

DraftReturn(e) == [fld EXCEPT !.pc = "returned", !.err = e]

\* if !model.Net.IsNull() && !model.Net.IsUnknown() { ... config.QemuNetworks = ... }
DraftNet ==
    /\ fld.pc = "dnet"
    /\ IF fld.model.net = NullObject
       THEN fld' = [fld EXCEPT !.pc = "ddisks"]
       ELSE \/ fld' = [fld EXCEPT !.pc = "ddisks", !.config.networks = <<fld.model.net[1]>>]
            \/ fld' = DraftReturn("unable to create config object from net state value")
    /\ UNCHANGED <<lifecycleVars, poll, disks>>

\* The containers are allocated whatever the spec holds.
DraftDisks ==
    /\ fld.pc = "ddisks"
    /\ fld' = [fld EXCEPT !.pc = "dvirtio", !.config.disks = EmptyDisks]
    /\ UNCHANGED <<lifecycleVars, poll, disks>>

\* if !(model.Virtio0.IsNull() && ... ) { config.Disks.VirtIO.Disk_0, err = ... }
DraftVirtio ==
    /\ fld.pc = "dvirtio"
    /\ IF \A s \in VirtioSlots : fld.model[s] = NullObject
       THEN fld' = [fld EXCEPT !.pc = "dide"]
       ELSE IF fld.config.disks[1].virtio = NoDisk
       THEN fld' = DraftReturn("nil pointer dereference")
       ELSE \/ fld' = [fld EXCEPT !.pc = "dide",
                          !.config.disks[1].virtio =
                              <<[s \in VirtioSlots |->
                                    virtioAPIConfigFromStateValue(fld.model[s])]>>]
            \/ fld' = DraftReturn("unable to create config object from virtio state value")
    /\ UNCHANGED <<lifecycleVars, poll, disks>>

\* if !(model.Ide0.IsNull() && ... ) { config.Disks.Ide.Disk_0, err = ... }; return nil
DraftIde ==
    /\ fld.pc = "dide"
    /\ IF \A s \in IdeSlots : fld.model[s] = NullObject
       THEN fld' = [fld EXCEPT !.pc = "returned"]
       ELSE IF fld.config.disks[1].ide = NoDisk
       THEN fld' = DraftReturn("nil pointer dereference")
       ELSE \/ fld' = [fld EXCEPT !.pc = "returned",
                          !.config.disks[1].ide =
                              <<[s \in IdeSlots |-> ideAPIConfigFromStateValue(fld.model[s])]>>]
            \/ fld' = DraftReturn("unable to create config object from ide state value")
    /\ UNCHANGED <<lifecycleVars, poll, disks>>

\* config := &pveapi.ConfigQemu{}; apiConfigFromVMResourceModel(ctx, &plan, config)
InitDraft ==
    /\ NoLifecycle
    /\ poll = None /\ disks = None
    /\ \E model \in DraftModels :
          fld = [pc |-> "dnet", model |-> model, err |-> "none",
                 config |-> [networks |-> <<>>, disks |-> NoDisk]]

NextDraft ==
    \/ DraftNet
    \/ DraftDisks
    \/ DraftVirtio
    \/ DraftIde

SpecDraft == InitDraft /\ [][NextDraft]_vars

\* ------------------------------------------------------------ properties
LastIdx(s, S) ==
    LET I == {i \in 1..Len(s) : s[i] \in S}
    IN  IF I = {} THEN 0 ELSE CHOOSE i \in I : \A j \in I : j <= i

Returned(r, o) == pc[r] = "done" /\ op[r] = o

\* The create/clone call of r is being answered with "already exists".
C1_Collides(r) == pc[r] \in {"create", "clone"} /\ Exists(vmr[r]) /\ pc'[r] # pc[r]

C2_CreateReturns == (op["a"] = "Create") ~> (pc["a"] = "done")

C3_BothAuto == \A r \in Res : cfg[r].vmid = Unknown

C4_SameExplicit == \A r \in Res : cfg[r].vmid = initialVMID

\* C4: of two Creates with one explicit id, the one rejected with "already
\* exists" has returned, has written no state, has issued no start, stop or
\* config update, and its rejection changed nothing on the platform: the guest
\* under the id is the other Create's; and when both have returned and neither
\* create call failed for another reason, exactly one of them made the guest
\* and the other holds the "already exists" error.
C4_SameExplicitIdOneWins ==
    /\ [](C4_SameExplicit => \A r \in Res :
            /\ diag[r] = "Exists" =>
                  /\ pc[r] = "done"
                  /\ tfstate[r] = NoState
                  /\ Range(log[r]) \cap {"StartVm", "StopVm", "UpdateConfig"} = {}
                  /\ Exists(vmr[r])
                  /\ guests[vmr[r]].creator \in Res \ {r}
            /\ (diag[r] = "none" /\ tfstate[r] # NoState) =>
                  guests[initialVMID].creator = r)
    /\ []((C4_SameExplicit
            /\ \A r \in Res : pc[r] = "done" /\ diag[r] \notin {"CreateFailed", "Lookup"})
          => \E r \in Res :
                /\ guests[initialVMID].creator = r
                /\ diag[r] # "Exists"
                /\ \A q \in Res \ {r} : diag[q] = "Exists")
    /\ [][\A r \in Res : (diag[r] # "Exists" /\ diag'[r] = "Exists") => guests' = guests]_vars

\* One Create made and started the guest, the other was rejected.
C4_Witness ==
    /\ C4_SameExplicit
    /\ \E r \in Res :
          /\ Returned(r, "Create") /\ diag[r] = "none" /\ tfstate[r].vmid = initialVMID
          /\ guests[initialVMID].status = stateRunning
          /\ \A q \in Res \ {r} : Returned(q, "Create") /\ diag[q] = "Exists"

\* C5: after a Create that returned without error the guest runs exactly when
\* the desired status is "running".
C5_CreateLeavesDesiredStatus ==
    \A r \in Res : (Returned(r, "Create") /\ diag[r] = "none") =>
        (guests[vmr[r]].status = stateRunning <=> cfg[r].status = stateRunning)

\* C6: after an Update that returned without error the guest's status on the
\* platform is the desired one, the status in state is that status, and the
\* last status query of the Update came after its last start or stop call.
C6_UpdateReachesDesiredStatus ==
    \A r \in Res : (Returned(r, "Update") /\ diag[r] = "none") =>
        /\ guests[vmr[r]].status = cfg[r].status
        /\ tfstate[r] = [vmid |-> vmr[r], status |-> cfg[r].status]
        /\ LastIdx(log[r], {"GetVmState"}) > LastIdx(log[r], {"StartVm", "StopVm"})

\* An Update that found the guest running, rebooted it for pending changes and
\* then stopped it as desired.
C6_Witness ==
    \E r \in Res :
        /\ Returned(r, "Update") /\ diag[r] = "none"
        /\ pre[r] = stateRunning /\ cfg[r].status = stateStopped
        /\ guests[vmr[r]].status = stateStopped
        /\ "StartVm" \in Range(log[r])
        /\ log[r][LastIdx(log[r], {"StartVm", "StopVm"})] = "StopVm"

\* C7: an Update with desired status "running" of a VM that was stopped, whose
\* config update, pending query, power calls and config and status reads all
\* succeed, returns without error, has issued a start call, and leaves the VM
\* running.
C7_UpdateStartsStoppedVM ==
    \A r \in Res :
        (/\ Returned(r, "Update")
         /\ cfg[r].kind = "vm" /\ cfg[r].status = stateRunning
         /\ pre[r] = stateStopped
         /\ diag[r] \notin {"UpdateConfig", "Pending", "StartVm", "StopVm",
                            "GetConfig", "GetVmState", "AgentPoll"})
        => /\ diag[r] = "none"
           /\ "StartVm" \in Range(log[r])
           /\ guests[vmr[r]].status = stateRunning

C8_Deleting(r) == op[r] \in {"Delete", "DeleteAgain"}

\* C8: a Delete, first or repeated, whose guest is not in the list issues no
\* call but the listing and, unless the listing itself fails, returns without
\* error.
C8_DeleteOfAbsentGuestSucceeds ==
    \A r \in Res :
           (C8_Deleting(r) /\ pre[r] = "absent") =>
              /\ pc[r] \in {"list", "done"}
              /\ Range(log[r]) \subseteq {"ListGuests"}
              /\ pc[r] = "done" => (diag[r] \in {"none", "ListGuests"} /\ log[r] = <<"ListGuests">>)

\* The second of two Deletes has returned without error.
C8_Witness ==
    \E r \in Res :
        /\ Returned(r, "DeleteAgain") /\ diag[r] = "none"
        /\ log[r] = <<"ListGuests">>
        /\ tfstate[r] = NoState

\* C9: when Delete is about to issue the delete call the guest is not running;
\* if the guest was running when Delete began, a stop call precedes the delete
\* call in its calls; and a Delete whose stop call failed has returned with
\* that error without a delete call.
C9_DeleteOnlyStoppedGuests ==
    \A r \in Res : C8_Deleting(r) =>
        /\ pc[r] = "delete" => (Exists(vmr[r]) /\ guests[vmr[r]].status = stateStopped)
        /\ (pre[r] = stateRunning /\ "DeleteVm" \in Range(log[r])) =>
              /\ LastIdx(log[r], {"StopVm"}) > 0
              /\ LastIdx(log[r], {"StopVm"}) < LastIdx(log[r], {"DeleteVm"})
        /\ diag[r] = "StopVm" => (pc[r] = "done" /\ "DeleteVm" \notin Range(log[r]))
        /\ (pc[r] = "done" /\ log[r] # <<>> /\ log[r][Len(log[r])] = "StopVm")
              => diag[r] = "StopVm"

\* A Delete of a running container: status query, stop, delete.
C9_Witness ==
    \E r \in Res :
        /\ Returned(r, "Delete") /\ diag[r] = "none"
        /\ cfg[r].kind = "lxc" /\ pre[r] = stateRunning
        /\ log[r] = <<"ListGuests", "GetVmState", "StopVm", "DeleteVm">>
        /\ ~Exists(vmr[r])

\* C10: a Read that finds its guest not in the list issues no call but the
\* listing (no read of the configuration) and, unless the listing itself
\* fails, returns without error with the resource removed from state.
C10_ReadOfAbsentGuestRemovesState ==
    \A r \in Res : (op[r] = "Read" /\ pre[r] = "absent") =>
        /\ pc[r] \in {"list", "done"}
        /\ Range(log[r]) \subseteq {"ListGuests"}
        /\ (pc[r] = "done" /\ diag[r] # "ListGuests") =>
              (diag[r] = "none" /\ tfstate[r] = NoState /\ log[r] = <<"ListGuests">>)

\* A Read of a guest deleted out of band has returned.
C10_Witness ==
    \E r \in Res :
        /\ Returned(r, "Read") /\ pre[r] = "absent"
        /\ diag[r] = "none" /\ tfstate[r] = NoState
        /\ vmr[r] # Unknown /\ ~Exists(vmr[r])

\* C18: an import request, for the VM, the container and the SDN zone resource
\* and for every import id, returns with an error diagnostic and leaves the
\* resource out of state.
C18_ImportAlwaysFails ==
    /\ [](\A r \in Res : Returned(r, "Import") => (diag[r] # "none" /\ tfstate[r] = NoState))
    /\ [][\A r \in Res : (op'[r] = "Import" /\ op[r] # "Import")
            => (diag'[r] # "none" /\ tfstate'[r] = tfstate[r])]_vars

\* An import of an SDN zone has returned.
C18_Witness ==
    \E r \in Res :
        /\ Returned(r, "Import")
        /\ diag[r] = "ImportState Not Yet Supported: sdn_zone"
        /\ tfstate[r] = NoState

\* C19: an Update of a tracked resource works on the id in prior state and
\* never asks the platform for a next free id, also after an explicit vmid was
\* taken out of the configuration; it leaves the vmid in state as it was, and no
\* Create is invoked while the resource is tracked.
C19_UnconfiguredVMIDKeepsId ==
    /\ [](\A r \in Res : op[r] = "Update" =>
            /\ tfstate[r].vmid # Unknown
            /\ vmr[r] \in {Unknown, tfstate[r].vmid}
            /\ pc[r] # "getid" => vmr[r] = tfstate[r].vmid
            /\ "GetNextID" \notin Range(log[r])
            /\ nCreate[r] = 0)
    /\ [][\A r \in Res :
            /\ op[r] = "Update" => tfstate'[r].vmid = tfstate[r].vmid
            /\ (cfg'[r].vmid = Unknown /\ cfg[r].vmid # Unknown)
                  => (tfstate'[r] = tfstate[r] /\ guests' = guests)
            /\ (op'[r] = "Create" /\ op[r] # "Create") => tfstate[r].vmid = Unknown]_vars

\* An Update after the explicit vmid was removed has returned without error,
\* on the guest that was created under that vmid.
C19_Witness ==
    \E r \in Res :
        /\ Returned(r, "Update") /\ diag[r] = "none"
        /\ cfg[r].vmidRemoved /\ cfg[r].vmid = Unknown
        /\ tfstate[r].vmid = initialVMID /\ vmr[r] = initialVMID
        /\ guests[initialVMID].creator = r

\* C16: a read that polls ends its wait on the deadline with the error "timeout
\* waiting for agent to start" and no address; it never returns success with
\* an empty address; and once it waits it returns, whatever the task does.
C16_PollTimesOut ==
    /\ []((PollEngaged(poll) /\ poll.pc = "returned")
            => \/ poll.result = "ok" /\ poll.ipv4 # ""
               \/ /\ poll.result = "error" /\ poll.ipv4 = ""
                  /\ poll.err \in {"timeout waiting for agent to start", "agent query failed"})
    /\ []((PollEngaged(poll) /\ poll.pc = "returned" /\ poll.task # "exit")
            => (poll.result = "error" /\ poll.err = "timeout waiting for agent to start"))
    /\ []((poll.err = "timeout waiting for agent to start") => poll.dl)
    /\ (poll.pc = "select") ~> (poll.pc = "returned")

\* The read has returned the timeout error while the task's first query is
\* still out.
C16_Witness ==
    /\ poll.pc = "returned"
    /\ poll.result = "error" /\ poll.err = "timeout waiting for agent to start"
    /\ poll.task = "query" /\ poll.queries = 1 /\ ~poll.late /\ ~poll.stopped

\* C17: once the read has returned, the task starts no further agent query and
\* is not blocked in a channel send.
C17_TaskStopsWithCaller ==
    /\ [](poll.pc = "returned" => poll.task \notin {"sendipv4", "senderr"})
    /\ [](~poll.late)

IsMutation(c) == c.kind \in {"delete", "create", "move", "resize"}

\* A slot of both sets that differs only in size, the desired device having no
\* volume of its own.
C15_OnlySize(k) ==
    /\ k \in DOMAIN disks.prev /\ k \in DOMAIN disks.desired
    /\ Get(disks.desired[k], "slot") = Get(disks.prev[k], "slot")
    /\ Get(disks.desired[k], "volume") \in {Nil, ""}
    /\ Get(disks.desired[k], "storage") \in {Nil, Get(disks.prev[k], "storage")}
    /\ Get(disks.desired[k], "size") \notin {Nil, Get(disks.prev[k], "size")}

C11_Agree(kind, state, remote) ==
    IF kind = "vm"
    THEN /\ ValueString(state.name) = remote.name
         /\ ValueString(state.description) = remote.description
         /\ (IF state.agent THEN 1 ELSE 0) = remote.agent
         /\ state.sockets = remote.sockets
         /\ state.cores = remote.cores
         /\ state.memory = remote.memory
         /\ (state.virtio0 = NullObject) = (remote.virtio0 = NoDisk)
         /\ state.virtio0 # NullObject =>
               /\ state.virtio0[1].storage = remote.virtio0[1].storage
               /\ state.virtio0[1].size * 1024 * 1024 = remote.virtio0[1].sizeKiB
         /\ state.status = remote.status
    ELSE /\ state.hostname = remote.hostname
         /\ state.status = remote.status

\* C11: after an out-of-band change and a successful Read, every tracked
\* field of the state has the platform's current value.
C11_ReadReflectsPlatform ==
    fld.trail = "oob-read" => C11_Agree(fld.kind, fld.state, fld.remote)

\* The configured fields of the desired spec against the platform's
\* configuration and against the state.
C12_Reconciled(kind, plan, state, remote) ==
    IF kind = "vm"
    THEN LET sent == apiConfigFromVMResourceModel(plan)
         IN  /\ plan.name # Null => (remote.name = plan.name /\ state.name = plan.name)
             /\ plan.description # Null =>
                   (remote.description = plan.description /\ state.description = plan.description)
             /\ remote.agent = (IF plan.agent THEN 1 ELSE 0) /\ state.agent = plan.agent
             /\ remote.sockets = plan.sockets /\ state.sockets = plan.sockets
             /\ remote.cores = plan.cores /\ state.cores = plan.cores
             /\ remote.memory = plan.memory /\ state.memory = plan.memory
             /\ plan.virtio0 # NullObject =>
                   /\ remote.virtio0 # NoDisk
                   /\ remote.virtio0[1].storage = plan.virtio0[1].storage
                   /\ remote.virtio0[1].sizeKiB = plan.virtio0[1].size * 1024 * 1024
                   /\ state.virtio0 = plan.virtio0
             /\ remote.status = plan.status /\ state.status = plan.status
    ELSE /\ remote.hostname = plan.hostname /\ state.hostname = plan.hostname
         /\ remote.status = plan.status /\ state.status = plan.status

\* C12: after an out-of-band modification, a Read and then a successful Update
\* with the unchanged desired spec, the platform's configuration and the state
\* written by Update equal the desired spec on every configured field.
C12_UpdateReconcilesDrift ==
    fld.trail = "oob-read-update" =>
        C12_Reconciled(fld.kind, fld.plan, fld.state, fld.remote)

\* Update has undone an out-of-band resize of the configured disk.
C12_Witness ==
    /\ fld.trail = "oob-read-update" /\ fld.op = "Update" /\ fld.ok
    /\ fld.kind = "vm" /\ fld.drift = "virtio0"
    /\ fld.plan.virtio0 # NullObject
    /\ fld.remote.virtio0 = <<[storage |-> "local-lvm", sizeKiB |-> 1024 * 1024]>>

\* C13: a successful container Update stores the prior state's ostemplate,
\* password and ssh_public_keys, a successful VM Update stores the plan's clone
\* marker, and a Read leaves all of these as they were.
C13_UnreportedFieldsKept ==
    /\ [][(FldUpdate /\ fld'.ok) =>
            IF fld.kind = "vm"
            THEN fld'.state.clone = fld.plan.clone
            ELSE /\ fld'.state.ostemplate = fld.state.ostemplate
                 /\ fld'.state.password = fld.state.password
                 /\ fld'.state.ssh_public_keys = fld.state.ssh_public_keys]_vars
    /\ [][FldRead =>
            IF fld.kind = "vm"
            THEN fld'.state.clone = fld.state.clone
            ELSE /\ fld'.state.ostemplate = fld.state.ostemplate
                 /\ fld'.state.password = fld.state.password
                 /\ fld'.state.ssh_public_keys = fld.state.ssh_public_keys]_vars

\* A container Update has stored the prior state's password, not the edited
\* one of the desired spec.
C13_Witness ==
    /\ fld.op = "Update" /\ fld.ok /\ fld.kind = "lxc"
    /\ fld.plan.password = Null
    /\ fld.state.password = "secret"
    /\ fld.state.ostemplate = "local:vztmpl/alpine"

\* C20: for a VM's name and description a null desired value reaches the
\* platform as "" and "" on the platform is stored as null, never as "".
C20_NullEmptyRoundTrip ==
    (fld.kind = "vm" /\ fld.op \in {"Create", "Read", "Update"} /\ fld.ok) =>
        /\ (fld.remote.name = "") = (fld.state.name = Null)
        /\ (fld.remote.description = "") = (fld.state.description = Null)
        /\ fld.state.name # "" /\ fld.state.description # ""
        /\ fld.op \in {"Create", "Update"} =>
              /\ fld.plan.name = Null => fld.remote.name = ""
              /\ fld.plan.description = Null => fld.remote.description = ""

\* A VM created without a name: the platform holds "", the state null.
C20_Witness ==
    /\ fld.kind = "vm" /\ fld.op = "Create" /\ fld.ok
    /\ fld.plan.name = Null
    /\ fld.remote.name = ""
    /\ fld.state.name = Null

IsEngineCall(c) == c.kind \in {"delete", "create", "move", "resize", "reread"}

\* C21: the diff engine's calls come in the order bulk delete, bulk create,
\* moves and resizes (for one slot the move first), configuration re-read, with
\* at most one delete, one create and one re-read.
C21_PassOrder ==
    LET calls == SelectSeq(disks.calls, IsEngineCall)
    IN  \A i, j \in 1..Len(calls) : i < j =>
            LET a == calls[i] b == calls[j]
            IN  /\ b.kind # "delete"
                /\ b.kind = "create" => a.kind = "delete"
                /\ a.kind # "reread"
                /\ (a.kind = "resize" /\ b.kind = "move") => a.names # b.names

\* A run that deleted one slot, created another, resized it and re-read.
C21_Witness ==
    /\ disks.pc = "done"
    /\ Len(disks.calls) = 4
    /\ disks.calls[1].kind = "delete" /\ disks.calls[2].kind = "create"
    /\ disks.calls[3].kind = "resize" /\ disks.calls[4].kind = "reread"

\* C22: after a failing call of the diff engine no further call is issued at
\* all (no later pass, no compensation, no config update), the engine's error
\* is what Update reports, and Update writes no state.
C22_FailureAborts ==
    disks.err # "none" =>
        /\ disks.pc \in {"failed", "returned"}
        /\ disks.calls # <<>>
        /\ disks.calls[Len(disks.calls)].kind = (IF disks.err = "notstring" THEN "reread"
                                                 ELSE disks.err)
        /\ \A i \in 1..Len(disks.calls) : disks.calls[i].kind # "UpdateConfig"
        /\ ~disks.wrote
        /\ disks.pc = "returned" => disks.diag = "Could not update LXC disks"

\* A container Update has returned after the move of its rootfs failed.
C22_Witness ==
    /\ disks.caller = "Update" /\ disks.pc = "returned"
    /\ disks.err = "move"
    /\ disks.diag = "Could not update LXC disks"
    /\ Len(disks.calls) = 1

C24_Returned ==
    /\ disks.err = "none" /\ disks.pc # "panicked"
    /\ \E i \in 1..Len(disks.calls) : disks.calls[i].kind = "reread"

\* C24: when the engine has returned without error every desired device
\* carries the volume the platform reports for its slot, and the platform
\* reports one for every desired slot.
C24_VolumesFromReRead ==
    C24_Returned =>
        \A k \in DOMAIN disks.new :
            /\ disks.remote[diskSlotName(disks.new[k])] # Nil
            /\ Get(disks.new[k], "volume") = disks.remote[diskSlotName(disks.new[k])]

\* A device created without a volume of its own carries the allocated one.
C24_Witness ==
    /\ C24_Returned /\ disks.pc = "done"
    /\ \E k \in DOMAIN disks.new :
          /\ Get(disks.desired[k], "volume") = Nil
          /\ disks.new[k]["volume"] = "local:vol-new"

\* C25: a container Update whose plan has the prior state's rootfs issues no
\* call of the diff engine: only the config update, the pending-changes
\* query, power calls and the read-backs.
C25_UnchangedRootfsNoDiff ==
    (disks.pc # "none" /\ disks.caller = "Update" /\ disks.plan = disks.rootfs) =>
        \A i \in 1..Len(disks.calls) :
            disks.calls[i].kind \in {"UpdateConfig", "GuestHasPendingChanges", "StopVm",
                                     "StartVm", "ReadEverything", "ReadStatus"}

\* Such an Update has written its state after a reboot.
C25_Witness ==
    /\ disks.caller = "Update" /\ disks.plan = disks.rootfs
    /\ disks.pc = "returned" /\ disks.wrote
    /\ Len(disks.calls) >= 6
    /\ disks.calls[1].kind = "UpdateConfig"

\* C26: every Create that returns without error, of a VM or of a container,
\* has read the configuration and the power status from the platform after
\* the creation and any start call, before it wrote the state.
C26_CreateReadsEverything ==
    \A r \in Res :
        (Returned(r, "Create") /\ diag[r] = "none") =>
            LET made == LastIdx(log[r], {"Create", "UpdateConfig", "StopVm", "StartVm"})
            IN  /\ tfstate[r].vmid # Unknown
                /\ LastIdx(log[r], {"GetConfig"}) > made
                /\ LastIdx(log[r], {"GetVmState"}) > made

\* The last call r has issued.
LastCall(r) == IF log[r] = <<>> THEN "none" ELSE log[r][Len(log[r])]

\* C27: when the platform reports pending changes after a config update (in
\* Update, and after the post-clone update of Create) the handler issues a
\* stop and then a start on that guest, the start only once the stop has
\* succeeded, and never the reboot endpoint; when it reports none, the handler
\* goes on without either call.
C27_RebootIsStopThenStart ==
    /\ [](\A r \in Res :
            /\ \A i \in 1..Len(log[r]) : log[r][i] # "RebootVm"
            /\ pc[r] = "rstop" =>
                  /\ LastCall(r) \in {"GuestHasPendingChanges", "UpdateConfig"}
                  /\ guests[vmr[r]].pending
            /\ pc[r] = "rstart" =>
                  /\ LastCall(r) = "StopVm"
                  /\ guests[vmr[r]].status = stateStopped)
    /\ [][\A r \in Res :
            /\ (pc[r] = "pending" /\ pc'[r] \notin {"pending", "done"}) =>
                  /\ pc'[r] = (IF guests[vmr[r]].pending THEN "rstop" ELSE "read1")
                  /\ log'[r] = Append(log[r], "GuestHasPendingChanges")
            /\ (pc[r] = "postupdate" /\ pc'[r] \notin {"postupdate", "done"}) =>
                  /\ pc'[r] = (IF guests'[vmr[r]].pending THEN "rstop" ELSE AfterCreated(r))
                  /\ log'[r] = Append(log[r], "UpdateConfig")
            /\ (pc[r] = "rstop" /\ pc'[r] # "rstop") =>
                  /\ log'[r] = Append(log[r], "StopVm")
                  /\ \/ pc'[r] = "rstart"
                     \/ pc'[r] = "done" /\ diag'[r] = "StopVm" /\ tfstate'[r] = tfstate[r]
            /\ (pc[r] = "rstart" /\ pc'[r] # "rstart") =>
                  /\ log'[r] = Append(log[r], "StartVm")
                  /\ vmr'[r] = vmr[r]]_vars

\* An Update has rebooted its guest by a stop and a start and gone on to read.
C27_Witness ==
    \E r \in Res :
        /\ op[r] = "Update" /\ pc[r] = "read1" /\ Len(log[r]) >= 3
        /\ SubSeq(log[r], Len(log[r]) - 2, Len(log[r]))
              = <<"GuestHasPendingChanges", "StopVm", "StartVm">>
        /\ guests[vmr[r]].status = stateRunning

\* The Create of r runs with an id the allocator is to assign.
AutoID(r) == op[r] = "Create" /\ pc[r] \notin {"idle", "off"} /\ cfg[r].vmid = Unknown

\* C28: every create attempt of Create's retry loop is preceded by an id
\* determination of its own: with an auto-assigned id the number of
\* next-free-id queries is one more than the number of create calls while an
\* attempt is being prepared and equal to it once the call is made (k
\* collisions and a success: k+1 queries), and the attempt targets the id the
\* newest query returned; with an explicit id the allocator is never queried.
C28_EachAttemptQueriesItsId ==
    /\ [](\A r \in Res :
            /\ (AutoID(r) /\ nNextID[r] < MaxAttempts) =>
                  nNextID[r] =
                     (IF \/ pc[r] \in {"lookup", "create", "clone"}
                         \/ pc[r] = "done" /\ diag[r] \in {"GetNextID", "Lookup"}
                      THEN nCreate[r] + 1 ELSE nCreate[r])
            /\ (op[r] = "Create" /\ pc[r] \notin {"idle", "off"} /\ ~AutoID(r)) =>
                  /\ nNextID[r] = 0
                  /\ "GetNextID" \notin Range(log[r])
                  /\ pc[r] \notin {"getid", "idle", "off", "done"} => vmr[r] = cfg[r].vmid)
    /\ [][\A r \in Res :
            /\ (AutoID(r) /\ pc[r] = "getid" /\ pc'[r] \notin {"getid", "done"}) =>
                  /\ vmr'[r] = MinOf(FreeIds)
                  /\ nNextID'[r] = Sat(nNextID[r])
            /\ (AutoID(r) /\ pc[r] \in {"lookup", "create", "clone"}) =>
                  vmr'[r] = vmr[r]]_vars

\* A Create with an auto-assigned id has succeeded at its second attempt,
\* after two queries.
C28_Witness ==
    \E r \in Res :
        /\ AutoID(r) /\ Returned(r, "Create") /\ diag[r] = "none"
        /\ nCreate[r] = 2 /\ nNextID[r] = 2
        /\ tfstate[r].vmid = vmr[r]

\* C29: when the lookup of a clone source given by name fails, Create returns
\* with the error naming the missing template, has issued no clone call, no
\* config update and no start call in that attempt, writes no state, and does
\* not start another attempt, auto-assigned id or not.
C29_LookupFailureEndsCreate ==
    /\ [](\A r \in Res :
            (Returned(r, "Create") /\ diag[r] = "Lookup") =>
                /\ log[r] \in {<<"GetVmRefByName">>, <<"GetNextID", "GetVmRefByName">>}
                /\ tfstate[r] = NoState)
    /\ [][\A r \in Res :
            (pc[r] = "lookup" /\ pc'[r] # "lookup") =>
                /\ log'[r] = Append(log[r], "GetVmRefByName")
                /\ guests' = guests /\ tfstate' = tfstate
                /\ \/ pc'[r] = "clone" /\ diag'[r] = diag[r]
                   \/ pc'[r] = "done" /\ diag'[r] = "Lookup"]_vars

\* A Create with an auto-assigned id has ended on a failed lookup.
C29_Witness ==
    \E r \in Res :
        /\ Returned(r, "Create") /\ diag[r] = "Lookup"
        /\ cfg[r].vmid = Unknown /\ cfg[r].clone = "name"
        /\ nNextID[r] >= 1

C31_Conditions ==
    poll.net /\ poll.agent = 1 /\ poll.networks > 0 /\ poll.mac # ""

\* C31 as stated: agent queries are issued only with the network bit, the
\* agent enabled and a MAC address on the first network device; in every other
\* case the read issues none, does not wait, and stores a null address.
C31_NoPollStoresNull ==
    /\ poll.queries > 0 => C31_Conditions
    /\ (poll.pc = "returned" /\ ~C31_Conditions) =>
          /\ poll.queries = 0 /\ poll.task = "none" /\ ~poll.dl
          /\ poll.result = "ok"
          /\ poll.addr = Null

\* C31, amended: as above, but the address is stored as null only when the
\* network bit is in the mask; without that bit the model's address is left
\* as it was.
C31_NoPollWithoutAgent ==
    /\ [](poll.pc # "none" =>
            /\ (poll.queries > 0 \/ poll.pc = "select" \/ poll.task # "none") => C31_Conditions
            /\ (poll.pc = "returned" /\ ~C31_Conditions) =>
                  /\ poll.queries = 0 /\ poll.task = "none" /\ ~poll.dl
                  /\ poll.result = "ok"
                  /\ poll.net => poll.addr = Null)
    /\ [][(poll.pc = "start" /\ poll'.pc # "start" /\ ~C31_Conditions) =>
            /\ poll'.pc = "returned"
            /\ poll'.addr = (IF poll.net THEN Null ELSE poll.addr)]_vars

\* A read with the network bit of a guest whose agent is disabled has
\* replaced the model's address by null without a query.
C31_Witness ==
    /\ poll.pc = "returned" /\ poll.net /\ poll.agent = 0
    /\ poll.networks > 0 /\ poll.mac # ""
    /\ poll.queries = 0 /\ poll.addr = Null

\* The fields the configuration bit stands for.
C32_ConfigFields(kind) ==
    IF kind = "vm"
    THEN {"name", "description", "agent", "sockets", "cores", "memory", "virtio0"}
    ELSE {"hostname"}

\* C32: a reader stores only the parts its mask asks for: with the status bit
\* alone it issues the status query only and changes the status field only,
\* every configuration field and the address staying as given; without the
\* status bit the status field stays as given.
C32_OnlyMaskedFieldsChange ==
    fld.pc # "none" =>
        /\ fld.mask = {"status"} =>
              /\ \A i \in 1..Len(fld.calls) : fld.calls[i] = "GetVmState"
              /\ fld.pc = "returned" /\ fld.err = "none" =>
                    (fld.calls = <<"GetVmState">>
                       /\ fld.model = [fld.given EXCEPT !.status = fld.remote.status])
        /\ "status" \notin fld.mask =>
              ("GetVmState" \notin Range(fld.calls) /\ fld.model.status = fld.given.status)
        /\ "config" \notin fld.mask =>
              /\ "GetConfig" \notin Range(fld.calls)
              /\ \A f \in C32_ConfigFields(fld.kind) : fld.model[f] = fld.given[f]
        /\ ("net" \notin fld.mask /\ fld.kind = "vm") =>
              /\ "AgentQuery" \notin Range(fld.calls)
              /\ fld.model.ipv4_address = fld.given.ipv4_address
        /\ fld.err # "none" => fld.model = fld.given

\* A status-only read of a VM has replaced a status that differed and kept a
\* name and an address the platform does not have.
C32_Witness ==
    /\ fld.pc = "returned" /\ fld.err = "none" /\ fld.kind = "vm"
    /\ fld.mask = {"status"}
    /\ fld.given.status # fld.remote.status /\ fld.model.status = fld.remote.status
    /\ fld.model.name = "wall-e" /\ fld.remote.name = "m-o"
    /\ fld.model.ipv4_address = "198.51.100.7"

\* C33: the draft built from a VM spec carries a disk container with a VirtIO
\* and an IDE collection, neither of them nil, for every spec including one
\* without any disk; a null slot of the spec is a nil entry of its collection
\* (and a slot that is set is an entry).
C33_DraftHasDiskCollections ==
    (fld.pc = "returned" /\ fld.err = "none") =>
        /\ fld.config.disks # NoDisk
        /\ fld.config.disks[1].virtio # NoDisk
        /\ fld.config.disks[1].ide # NoDisk
        /\ \A s \in VirtioSlots :
              (fld.model[s] = NullObject) = (fld.config.disks[1].virtio[1][s] = NoDisk)
        /\ \A s \in IdeSlots :
              (fld.model[s] = NullObject) = (fld.config.disks[1].ide[1][s] = NoDisk)

\* The draft of a spec without any disk: both collections are there and empty.
C33_Witness ==
    /\ fld.pc = "returned" /\ fld.err = "none"
    /\ \A s \in VirtioSlots \cup IdeSlots : fld.model[s] = NullObject
    /\ fld.config.disks = EmptyDisks

\* The masks the handlers of r hand to the state reader.
C34_MasksUsed(r) == {CreateMask(r), EverythingMask(r), StatusMask(r)}

\* C34: every mask a handler hands to the VM state reader is "everything" or
\* "status only", so the network bit never comes without the configuration
\* bit, and no handler ever ends in the reader's nil dereference.
C34_NetBitImpliesConfigBit ==
    \A r \in Res :
        /\ diag[r] # "nil pointer dereference"
        /\ cfg[r].kind = "vm" =>
              \A m \in C34_MasksUsed(r) :
                  /\ m \in {VMStateEverything, VMStateStatus}
                  /\ "net" \in m => "config" \in m

\* An Update of a VM with agent and network device has gone through both of
\* its reads, the first of them with the agent poll.
C34_Witness ==
    \E r \in Res :
        /\ Returned(r, "Update") /\ diag[r] = "none" /\ cfg[r].kind = "vm"
        /\ "AgentQuery" \in Range(log[r])
        /\ Len(SelectSeq(log[r], LAMBDA c : c = "GetVmState")) = 2
        /\ Len(SelectSeq(log[r], LAMBDA c : c = "GetConfig")) = 1

\* Where Create is between its successful create/clone call and its return.
C35_PastTheLoop == {"postupdate", "rstop", "rstart", "start", "read"}

\* The ids at which this step creates a guest for r.
C35_Made(r) == {id \in Ids : guests[id].creator # r /\ guests'[id].creator = r}

\* C35: one Create creates at most one guest: a guest is created only by the
\* create/clone call that succeeds, at the id of the attempt, and Create then
\* never returns to the retry loop; an attempt that is retried or fails has
\* left the platform as it was; and a Create that returns without error has
\* written the id of the guest it created.
C35_OneGuestPerCreate ==
    /\ [](\A r \in Res :
            (Returned(r, "Create") /\ diag[r] = "none") =>
                /\ tfstate[r].vmid = vmr[r] /\ vmr[r] \in Ids
                /\ guests[vmr[r]].creator = r)
    /\ [][\A r \in Res :
            /\ C35_Made(r) # {} =>
                  /\ op[r] = "Create" /\ pc[r] \in {"create", "clone"}
                  /\ C35_Made(r) = {vmr[r]}
                  /\ pc'[r] \in C35_PastTheLoop
            /\ (pc[r] \in {"create", "clone"} /\ pc'[r] \in {"getid", "done"}) =>
                  guests' = guests
            /\ (op[r] = "Create" /\ pc[r] \in C35_PastTheLoop) =>
                  pc'[r] \in C35_PastTheLoop \cup {"done"}]_vars

\* A Create has succeeded at its second attempt: its state names the guest it
\* created, next to the guest that took its first id.
C35_Witness ==
    \E r \in Res :
        /\ Returned(r, "Create") /\ diag[r] = "none" /\ nCreate[r] = 2
        /\ tfstate[r].vmid = vmr[r] /\ guests[vmr[r]].creator = r
        /\ \E id \in Ids : id # vmr[r] /\ Exists(id) /\ guests[id].creator # r

\* The remote call a diagnostic of Create or Update comes from.
C36_FailedCall(d) ==
    CASE d \in {"AgentPoll", "AgentPollStopped"} -> "AgentQuery"
      [] d = "Pending" -> "GuestHasPendingChanges"
      [] OTHER -> d

C37_OneSideNull ==
    /\ disks.pc # "none"
    /\ DOMAIN disks.prev = {0} /\ DOMAIN disks.desired = {0}
    /\ (disks.prev[0] = NilDevice) # (0 \in disks.nilNew)

====
